---- MODULE Spec2Model ----
(***************************************************************************)
(* Unix V4 filesystem simulation (class UnixFilesystem): the inode table,  *)
(* the directory-entry model, path resolution (namei) and the facade       *)
(* operations read / write / stat / readdir, together with the tree        *)
(* construction helpers _mkdir / _mkdev / _mkfile.                         *)
(*                                                                         *)
(* JavaScript values are represented as follows.                           *)
(*   - a string is a TLA+ string (Len, SubSeq and \o act on characters);   *)
(*   - a value that may be null is a record with a null flag:              *)
(*       a path argument   [null, str]                                     *)
(*       i_data / a read   [null, str]                                     *)
(*       i_entries         [null, list]                                    *)
(*   - an Inode object is named by its key in the Map; a function that     *)
(*     returns an Inode or null returns the key or Absent, and Throws      *)
(*     when the JavaScript raises a TypeError instead of returning.        *)
(***************************************************************************)
EXTENDS Integers, Sequences, FiniteSets, TLC

VARIABLES
    inodes,     \* this.inodes : Map inum -> Inode
    nextInum,   \* this.nextInum
    clock,      \* the last value Date.now() returned
    ret,        \* the last call on the filesystem: its arguments and outcome
    lastWrite,  \* history: per inode, the payload of the latest successful
                \* write (the payload it was created with if there was none)
    other,      \* a second UnixFilesystem instance: its inodes and nextInum
    ttt,        \* a TicTacToe object, its storage and the position of run()
    wump        \* a WumpGame object and the position of run()

vars == <<inodes, nextInum, clock, ret, lastWrite, other, ttt, wump>>

(***************************************************************************)
(* Bounds of the model.                                                    *)
(***************************************************************************)
MaxClock == 1       \* Date.now() ranges over 0..MaxClock
MaxNew == 2         \* inodes allocated after construction
MaxNewTwo == 1      \* the same, for each of two instances side by side
MaxGames == 2       \* the tic-tac-toe games one run() plays to the end

(***************************************************************************)
(* Inode flags.                                                            *)
(***************************************************************************)
IALLOC == 32768     \* 0o100000
IFMT == 24576       \* 0o60000
IFDIR == 16384      \* 0o40000
IFCHR == 8192       \* 0o20000
IREAD == 256        \* 0o400
IWRITE == 128       \* 0o200
IEXEC == 64         \* 0o100
NameMax == 14       \* DirectoryEntry keeps 14 characters of a name
rootInum == 1

Perm644 == 420      \* 0o644
Perm755 == 493      \* 0o755
Perm666 == 438      \* 0o666
Perm640 == 416      \* 0o640

\* mode & IFMT: IFMT is the two adjacent bits of weight IFCHR and IFDIR
TypeBits(mode) == ((mode \div IFCHR) % (IFMT \div IFCHR + 1)) * IFCHR

\* (mode & flag) !== 0 for a flag of one bit
HasFlag(mode, flag) == (mode \div flag) % 2 = 1

\* mode | flag for a flag of one bit
SetFlag(mode, flag) == IF HasFlag(mode, flag) THEN mode ELSE mode + flag

MinOf(S) == CHOOSE x \in S : \A y \in S : x <= y

\* const x = v; then F(x): v is evaluated once
Bind(v, F(_)) == CHOOSE r \in {F(x) : x \in {v}} : TRUE

(***************************************************************************)
(* Nullable values.                                                        *)
(***************************************************************************)
Null == [null |-> TRUE, str |-> ""]
Str(s) == [null |-> FALSE, str |-> s]
NullEntries == [null |-> TRUE, list |-> <<>>]
Entries(l) == [null |-> FALSE, list |-> l]

Absent == 0         \* null / undefined where an Inode is expected
Throws == -1        \* the call raised a TypeError

(***************************************************************************)
(* Inode and DirectoryEntry.                                               *)
(***************************************************************************)
\* the identifier is not stored in the inode
Inode_NoNumber(inum, mode, now) ==
    [i_number |-> 0, i_mode |-> mode, i_nlink |-> 1, i_uid |-> 0,
     i_gid |-> 0, i_size |-> 0, i_atime |-> now, i_mtime |-> now,
     i_data |-> Null, i_entries |-> NullEntries]

Inode(inum, mode, now) ==
    [i_number |-> inum, i_mode |-> mode, i_nlink |-> 1, i_uid |-> 0,
     i_gid |-> 0, i_size |-> 0, i_atime |-> now, i_mtime |-> now,
     i_data |-> Null, i_entries |-> NullEntries]

isDirectory(ino) == TypeBits(ino.i_mode) = IFDIR

\* only the character-device bit of the type is tested
isRegular_OneBit(ino) == ~HasFlag(ino.i_mode, IFCHR)

isRegular(ino) == TypeBits(ino.i_mode) = 0

isCharDevice(ino) == TypeBits(ino.i_mode) = IFCHR

\* the name is stored whole
Substring14_Whole(name) == name

Substring14(name) ==
    IF Len(name) <= NameMax THEN name ELSE SubSeq(name, 1, NameMax)

DirectoryEntry(inum, name) == [inum |-> inum, name |-> Substring14(name)]

(***************************************************************************)
(* The inode table as a value: fs = [inodes, nextInum].  The helpers below *)
(* return the table after the call; the construction helpers also say      *)
(* whether the call threw and which inode it allocated.                    *)
(***************************************************************************)
MapSet(m, k, v) == [x \in (DOMAIN m) \cup {k} |-> IF x = k THEN v ELSE m[x]]

_allocInode(fs, mode, now) ==
    LET inum == fs.nextInum
    IN  [inodes |-> MapSet(fs.inodes, inum, Inode(inum, SetFlag(mode, IALLOC), now)),
         nextInum |-> inum + 1]

\* the entry goes to the front of the list
Push_Front(fs, parent, entry, new) ==
    IF fs.inodes[parent].i_entries.null
    THEN [fs |-> fs, threw |-> TRUE, new |-> new]
    ELSE [fs |-> [fs EXCEPT !.inodes[parent].i_entries.list = <<entry>> \o @],
          threw |-> FALSE, new |-> new]

\* parent.i_entries.push(entry): a TypeError when i_entries is null
Push(fs, parent, entry, new) ==
    IF fs.inodes[parent].i_entries.null
    THEN [fs |-> fs, threw |-> TRUE, new |-> new]
    ELSE [fs |-> [fs EXCEPT !.inodes[parent].i_entries.list = Append(@, entry)],
          threw |-> FALSE, new |-> new]

\* ".." of the new directory points to the new directory
_mkdir_DotDotSelf(fs, parent, name, now) ==
    LET dir == fs.nextInum
        a == _allocInode(fs, IFDIR + Perm755, now)
        b == [a EXCEPT !.inodes[dir].i_entries =
                          Entries(<<DirectoryEntry(dir, "."),
                                    DirectoryEntry(dir, "..")>>)]
    IN  Push(b, parent, DirectoryEntry(dir, name), dir)

_mkdir(fs, parent, name, now) ==
    LET dir == fs.nextInum
        a == _allocInode(fs, IFDIR + Perm755, now)
        b == [a EXCEPT !.inodes[dir].i_entries =
                  Entries(<<DirectoryEntry(dir, "."),
                            DirectoryEntry(a.inodes[parent].i_number, "..")>>)]
    IN  Push(b, parent, DirectoryEntry(dir, name), dir)

\* _mkdev that does not link the device into its parent
_mkdev_NoLink(fs, parent, name, mode, now) ==
    [fs |-> _allocInode(fs, mode, now), threw |-> FALSE, new |-> fs.nextInum]

_mkdev(fs, parent, name, mode, now) ==
    LET dev == fs.nextInum
        a == _allocInode(fs, mode, now)
    IN  Push(a, parent, DirectoryEntry(dev, name), dev)

\* the size is left at zero
_mkfile_NoSize(fs, parent, name, content, mode, now) ==
    LET file == fs.nextInum
        a == _allocInode(fs, mode, now)
        b == [a EXCEPT !.inodes[file].i_data = Str(content)]
    IN  Push(b, parent, DirectoryEntry(file, name), file)

_mkfile(fs, parent, name, content, mode, now) ==
    LET file == fs.nextInum
        a == _allocInode(fs, mode, now)
        b == [a EXCEPT !.inodes[file].i_data = Str(content),
                       !.inodes[file].i_size = Len(content)]
    IN  Push(b, parent, DirectoryEntry(file, name), file)

MaxOf(S) == CHOOSE x \in S : \A y \in S : y <= x

\* the last matching entry is taken
_lookup_Last(tbl, dir, name) ==
    IF ~isDirectory(tbl[dir]) THEN Absent
    ELSE IF tbl[dir].i_entries.null THEN Throws
    ELSE LET l == tbl[dir].i_entries.list
             hits == {i \in 1..Len(l) : l[i].name = name}
         IN  IF hits = {} THEN Absent
             ELSE IF l[MaxOf(hits)].inum \in DOMAIN tbl
                  THEN l[MaxOf(hits)].inum ELSE Absent

_lookup(tbl, dir, name) ==
    IF ~isDirectory(tbl[dir]) THEN Absent
    ELSE IF tbl[dir].i_entries.null THEN Throws
    ELSE LET l == tbl[dir].i_entries.list
             hits == {i \in 1..Len(l) : l[i].name = name}
         IN  IF hits = {} THEN Absent
             ELSE IF l[MinOf(hits)].inum \in DOMAIN tbl
                  THEN l[MinOf(hits)].inum ELSE Absent

(***************************************************************************)
(* path.split('/').filter(p => p !== '')                                   *)
(***************************************************************************)
\* the position of the first "/" of s at or after i, Len(s) + 1 if none
NextSlash(s, i) ==
    MinOf({j \in i..Len(s) : SubSeq(s, j, j) = "/"} \cup {Len(s) + 1})

RECURSIVE SplitFrom(_, _)
SplitFrom(s, i) ==
    LET k == NextSlash(s, i)
    IN  IF k > Len(s) THEN <<SubSeq(s, i, Len(s))>>
        ELSE <<SubSeq(s, i, k - 1)>> \o SplitFrom(s, k + 1)

SplitSlash(s) == SplitFrom(s, 1)

\* no filter: the empty segments stay
FilterNonEmpty_Keep(parts) == parts

RECURSIVE FilterNonEmpty(_)
FilterNonEmpty(parts) ==
    IF parts = <<>> THEN <<>>
    ELSE IF Head(parts) = "" THEN FilterNonEmpty(Tail(parts))
    ELSE <<Head(parts)>> \o FilterNonEmpty(Tail(parts))

(***************************************************************************)
(* namei: the walk over the path's segments.  A method call on a null      *)
(* current inode would raise a TypeError.                                  *)
(***************************************************************************)
RECURSIVE Walk(_, _, _)
Walk(tbl, current, parts) ==
    IF parts = <<>> THEN current
    ELSE IF current = Absent THEN Throws
    ELSE IF ~isDirectory(tbl[current]) THEN Absent
    ELSE Bind(_lookup(tbl, current, Head(parts)),
             LAMBDA nxt : IF nxt = Throws THEN Throws
                          ELSE IF nxt = Absent THEN Absent
                          ELSE Walk(tbl, nxt, Tail(parts)))

\* no guard on the path: null.split raises, "" splits to no segment
namei_NoGuard(tbl, path) ==
    IF path.null THEN Throws
    ELSE LET current == IF rootInum \in DOMAIN tbl THEN rootInum ELSE Absent
         IN  Bind(FilterNonEmpty(SplitSlash(path.str)),
                  LAMBDA parts : Walk(tbl, current, parts))

namei(tbl, path) ==
    IF path.null \/ path.str = "" THEN Absent
    ELSE LET current == IF rootInum \in DOMAIN tbl THEN rootInum ELSE Absent
         IN  IF path.str = "/" THEN current
             ELSE Bind(FilterNonEmpty(SplitSlash(path.str)),
                      LAMBDA parts : Walk(tbl, current, parts))

stat(tbl, path) == namei(tbl, path)

(***************************************************************************)
(* readdir and read.  Both return null (the null flag) for a path that     *)
(* does not resolve; threw marks a TypeError.                              *)
(***************************************************************************)
\* no test of the kind: a non-directory has no entries to map over
readdir_NoKindCheck(tbl, path) ==
    Bind(namei(tbl, path), LAMBDA inode :
        IF inode = Throws
        THEN [threw |-> TRUE, null |-> TRUE, list |-> <<>>]
        ELSE IF inode = Absent
        THEN [threw |-> FALSE, null |-> TRUE, list |-> <<>>]
        ELSE IF tbl[inode].i_entries.null
        THEN [threw |-> TRUE, null |-> TRUE, list |-> <<>>]
        ELSE LET l == tbl[inode].i_entries.list
             IN  [threw |-> FALSE, null |-> FALSE,
                  list |-> [i \in 1..Len(l) |->
                              [name |-> l[i].name,
                               inode |-> IF l[i].inum \in DOMAIN tbl
                                         THEN l[i].inum ELSE Absent]]])

readdir(tbl, path) ==
    Bind(namei(tbl, path), LAMBDA inode :
        IF inode = Throws
        THEN [threw |-> TRUE, null |-> TRUE, list |-> <<>>]
        ELSE IF inode = Absent \/ ~isDirectory(tbl[inode])
        THEN [threw |-> FALSE, null |-> TRUE, list |-> <<>>]
        ELSE IF tbl[inode].i_entries.null
        THEN [threw |-> TRUE, null |-> TRUE, list |-> <<>>]
        ELSE LET l == tbl[inode].i_entries.list
             IN  [threw |-> FALSE, null |-> FALSE,
                  list |-> [i \in 1..Len(l) |->
                              [name |-> l[i].name,
                               inode |-> IF l[i].inum \in DOMAIN tbl
                                         THEN l[i].inum ELSE Absent]]])

read(tbl, path) ==
    Bind(namei(tbl, path), LAMBDA inode :
        IF inode = Throws
        THEN [threw |-> TRUE, null |-> TRUE, str |-> ""]
        ELSE IF inode = Absent \/ isDirectory(tbl[inode])
        THEN [threw |-> FALSE, null |-> TRUE, str |-> ""]
        ELSE [threw |-> FALSE, null |-> tbl[inode].i_data.null,
              str |-> tbl[inode].i_data.str])

\* write that keeps the old payload
write_KeepData(tbl, path, content, now) ==
    Bind(namei(tbl, path), LAMBDA inode :
        IF inode = Throws
        THEN [tbl |-> tbl, threw |-> TRUE, ok |-> FALSE, inode |-> Absent]
        ELSE IF inode = Absent \/ isDirectory(tbl[inode])
        THEN [tbl |-> tbl, threw |-> FALSE, ok |-> FALSE, inode |-> Absent]
        ELSE [tbl |-> [tbl EXCEPT ![inode].i_size = Len(content),
                                  ![inode].i_mtime = now],
              threw |-> FALSE, ok |-> TRUE, inode |-> inode])

\* write that does not turn directories away
write_OnDirectory(tbl, path, content, now) ==
    Bind(namei(tbl, path), LAMBDA inode :
        IF inode = Throws
        THEN [tbl |-> tbl, threw |-> TRUE, ok |-> FALSE, inode |-> Absent]
        ELSE IF inode = Absent
        THEN [tbl |-> tbl, threw |-> FALSE, ok |-> FALSE, inode |-> Absent]
        ELSE [tbl |-> [tbl EXCEPT ![inode].i_data = Str(content),
                                  ![inode].i_size = Len(content),
                                  ![inode].i_mtime = now],
              threw |-> FALSE, ok |-> TRUE, inode |-> inode])

\* write that keeps the old size
write_KeepSize(tbl, path, content, now) ==
    Bind(namei(tbl, path), LAMBDA inode :
        IF inode = Throws
        THEN [tbl |-> tbl, threw |-> TRUE, ok |-> FALSE, inode |-> Absent]
        ELSE IF inode = Absent \/ isDirectory(tbl[inode])
        THEN [tbl |-> tbl, threw |-> FALSE, ok |-> FALSE, inode |-> Absent]
        ELSE [tbl |-> [tbl EXCEPT ![inode].i_data = Str(content),
                                  ![inode].i_mtime = now],
              threw |-> FALSE, ok |-> TRUE, inode |-> inode])

\* the access time is set along with the modify time
write_TouchAtime(tbl, path, content, now) ==
    Bind(namei(tbl, path), LAMBDA inode :
        IF inode = Throws
        THEN [tbl |-> tbl, threw |-> TRUE, ok |-> FALSE, inode |-> Absent]
        ELSE IF inode = Absent \/ isDirectory(tbl[inode])
        THEN [tbl |-> tbl, threw |-> FALSE, ok |-> FALSE, inode |-> Absent]
        ELSE [tbl |-> [tbl EXCEPT ![inode].i_data = Str(content),
                                  ![inode].i_size = Len(content),
                                  ![inode].i_atime = now,
                                  ![inode].i_mtime = now],
              threw |-> FALSE, ok |-> TRUE, inode |-> inode])

\* the payload lands on the inode after the one the path resolves to
write_NextInode(tbl, path, content, now) ==
    Bind(namei(tbl, path), LAMBDA inode :
        IF inode = Throws
        THEN [tbl |-> tbl, threw |-> TRUE, ok |-> FALSE, inode |-> Absent]
        ELSE IF inode = Absent \/ isDirectory(tbl[inode])
        THEN [tbl |-> tbl, threw |-> FALSE, ok |-> FALSE, inode |-> Absent]
        ELSE IF inode + 1 \notin DOMAIN tbl
        THEN [tbl |-> tbl, threw |-> FALSE, ok |-> TRUE, inode |-> inode]
        ELSE [tbl |-> [tbl EXCEPT ![inode + 1].i_data = Str(content),
                                  ![inode + 1].i_size = Len(content),
                                  ![inode + 1].i_mtime = now],
              threw |-> FALSE, ok |-> TRUE, inode |-> inode])

\* write, as the table after the call, the value returned and the inode
\* written (Absent when the call returns false)
write(tbl, path, content, now) ==
    Bind(namei(tbl, path), LAMBDA inode :
        IF inode = Throws
        THEN [tbl |-> tbl, threw |-> TRUE, ok |-> FALSE, inode |-> Absent]
        ELSE IF inode = Absent \/ isDirectory(tbl[inode])
        THEN [tbl |-> tbl, threw |-> FALSE, ok |-> FALSE, inode |-> Absent]
        ELSE [tbl |-> [tbl EXCEPT ![inode].i_data = Str(content),
                                  ![inode].i_size = Len(content),
                                  ![inode].i_mtime = now],
              threw |-> FALSE, ok |-> TRUE, inode |-> inode])

(***************************************************************************)
(* The constructor: _initializeFilesystem builds the fixed tree.           *)
(***************************************************************************)
Passwd == "root::0:0::/:\ndaemon::1:1::/:\nbin::2:2::/bin:\n"
Motd == "Unix Fourth Edition\nBell Telephone Laboratories\n1973\n"

EmptyFs == [inodes |-> [x \in {} |-> x], nextInum |-> 1]

\* root: inode 1, "." and ".." both naming itself
BootRoot ==
    LET r0 == _allocInode(EmptyFs, IFDIR + Perm755, 0)
    IN  [r0 EXCEPT !.inodes[rootInum].i_entries =
            Entries(<<DirectoryEntry(r0.inodes[rootInum].i_number, "."),
                      DirectoryEntry(r0.inodes[rootInum].i_number, "..")>>)]

BootBin ==
    Bind(BootRoot, LAMBDA fs : _mkdir(fs, rootInum, "bin", 0).fs)

BootDev ==
    Bind(BootBin, LAMBDA fs : _mkdir(fs, rootInum, "dev", 0).fs)

BootEtc ==
    Bind(BootDev, LAMBDA fs : _mkdir(fs, rootInum, "etc", 0).fs)

BootUsr ==
    Bind(BootEtc, LAMBDA fs : _mkdir(fs, rootInum, "usr", 0).fs)

BootTmp ==
    Bind(BootUsr, LAMBDA fs : _mkdir(fs, rootInum, "tmp", 0).fs)

usr(fs) == _lookup(fs.inodes, rootInum, "usr")
BootGames ==
    Bind(BootTmp, LAMBDA fs : _mkdir(fs, usr(fs), "games", 0).fs)

BootLib ==
    Bind(BootGames, LAMBDA fs : _mkdir(fs, usr(fs), "lib", 0).fs)

BootUsrBin ==
    Bind(BootLib, LAMBDA fs : _mkdir(fs, usr(fs), "bin", 0).fs)

BootSys ==
    Bind(BootUsrBin, LAMBDA fs : _mkdir(fs, usr(fs), "sys", 0).fs)

dev(fs) == _lookup(fs.inodes, rootInum, "dev")
BootTty ==
    Bind(BootSys, LAMBDA fs : _mkdev(fs, dev(fs), "tty", IFCHR + Perm666, 0).fs)

BootNull ==
    Bind(BootTty, LAMBDA fs : _mkdev(fs, dev(fs), "null", IFCHR + Perm666, 0).fs)

BootMem ==
    Bind(BootNull, LAMBDA fs : _mkdev(fs, dev(fs), "mem", IFCHR + Perm640, 0).fs)

etc(fs) == _lookup(fs.inodes, rootInum, "etc")
BootPasswd ==
    Bind(BootMem, LAMBDA fs : _mkfile(fs, etc(fs), "passwd", Passwd, Perm644, 0).fs)

BootMotd ==
    Bind(BootPasswd, LAMBDA fs : _mkfile(fs, etc(fs), "motd", Motd, Perm644, 0).fs)

games(fs) == _lookup(fs.inodes, usr(fs), "games")
BootMoo ==
    Bind(BootMotd, LAMBDA fs : _mkfile(fs, games(fs), "moo", "[binary: 624 bytes]", Perm755, 0).fs)

BootBj ==
    Bind(BootMoo, LAMBDA fs : _mkfile(fs, games(fs), "bj", "[binary: 1562 bytes]", Perm755, 0).fs)

BootTtt ==
    Bind(BootBj, LAMBDA fs : _mkfile(fs, games(fs), "ttt", "[binary: 2192 bytes]", Perm755, 0).fs)

BootTttK ==
    Bind(BootTtt, LAMBDA fs : _mkfile(fs, games(fs), "ttt.k", "", Perm644, 0).fs)

BootCubic ==
    Bind(BootTttK, LAMBDA fs : _mkfile(fs, games(fs), "cubic", "[binary: 2468 bytes]", Perm755, 0).fs)

BootWump ==
    Bind(BootCubic, LAMBDA fs : _mkfile(fs, games(fs), "wump", "[binary: 5386 bytes]", Perm755, 0).fs)

BootChess ==
    Bind(BootWump, LAMBDA fs : _mkfile(fs, games(fs), "chess", "[binary: 14310 bytes]", Perm755, 0).fs)

\* the filesystem the constructor leaves
Fresh == BootChess

\* the first identifier free after construction: the constructor allocates
\* 22 inodes
FirstFree == 23

(***************************************************************************)
(* Inputs of the calls.                                                    *)
(***************************************************************************)
PathStrings ==
    {"", "/", "/usr", "/dev", "//usr//games", "/dev/null", "/nope",
     "/usr/games/ttt.k", "/usr/games/../games//ttt.k", "/usr/games/ttt.k/x"}

\* the paths written
Paths == {Null} \cup {Str(s) : s \in PathStrings}

\* the paths resolved, listed or read
QueryStrings ==
    PathStrings \cup {"/bin", "/usr/games", "/usr/games/wump", "/etc/passwd"}

QueryPaths == {Null} \cup {Str(s) : s \in QueryStrings}

Contents == {"", "ab"}

\* the calls of the construction helpers
ParentPaths == {Str("/etc"), Str("/etc/f"), Str("/etc/passwd"), Str("/dev/null")}
Names == {"f", "passwd", "a_name_of_21_letters_", "a/b", ""}
FileArgs == {<<"ab", Perm644>>, <<"", Perm755>>}
DevModes == {IFCHR + Perm666}
BuildPaths == {Str("/etc/passwd"), Str("/etc/f"), Str("/etc/passwd/f")}
BuildContents == {"xyz"}

(***************************************************************************)
(* The games.  A TicTacToe object is a record of its fields, with the      *)
(* content its storage holds (storage.null: no storage was given) and the  *)
(* position of run() in pc; the board is indexed 1..9 for the cells 0..8   *)
(* of the JavaScript array, moveHistory holds cells 0..8, and knowledge,    *)
(* a Map, is the sequence of its entries in insertion order.  games counts *)
(* the games finished and calls lists the outcomes passed to               *)
(* updateKnowledge in the current game.  A WumpGame object is a record of  *)
(* its fields with the position of run() in pc, the local result of run()  *)
(* and shots, the number of calls of shoot in the current game; pits and   *)
(* bats, arrays the code only appends to and searches, are the sets of     *)
(* their elements.                                                         *)
(***************************************************************************)
EMPTY == 0
HUMAN == 1
COMPUTER == 2

EmptyBoard == [i \in 1..9 |-> EMPTY]

TicTacToe(storage) ==
    [storage |-> storage, board |-> EmptyBoard, knowledge |-> <<>>,
     moveHistory |-> <<>>, knowledgeDirty |-> FALSE,
     pc |-> "new", games |-> 0, calls |-> <<>>]

NewTicTacToe == TicTacToe(Null)

NewWumpGame ==
    [player |-> 0, wumpus |-> 0, pits |-> {}, bats |-> {}, arrows |-> 5,
     pc |-> "new", result |-> "none", shots |-> 0]

(***************************************************************************)
(* The record of the last call.                                            *)
(***************************************************************************)
NoCall ==
    [op |-> "new", path |-> Null, content |-> "", parent |-> Absent,
     name |-> "", mode |-> 0, threw |-> FALSE, inode |-> Absent,
     data |-> Null, entries |-> NullEntries, ok |-> FALSE, on |-> 1]

Init ==
    /\ Fresh.nextInum = FirstFree
    /\ inodes = Fresh.inodes
    /\ nextInum = Fresh.nextInum
    /\ clock = 0
    /\ ret = NoCall
    /\ lastWrite = [i \in DOMAIN Fresh.inodes |-> Fresh.inodes[i].i_data]
    /\ other = Fresh
    /\ ttt = NewTicTacToe
    /\ wump = NewWumpGame

(***************************************************************************)
(* The facade operations.                                                  *)
(***************************************************************************)
Namei(p) ==
    \E r \in {namei(inodes, p)} :
        /\ ret' = [NoCall EXCEPT !.op = "namei", !.path = p,
                                 !.threw = (r = Throws), !.inode = r]
        /\ UNCHANGED <<inodes, nextInum, clock, lastWrite, other, ttt, wump>>

Stat(p) ==
    \E r \in {stat(inodes, p)} :
        /\ ret' = [NoCall EXCEPT !.op = "stat", !.path = p,
                                 !.threw = (r = Throws), !.inode = r]
        /\ UNCHANGED <<inodes, nextInum, clock, lastWrite, other, ttt, wump>>

\* read stamps the access time of the inode it returns data of
Read_TouchAtime(p) ==
    \E r \in {read(inodes, p)}, n \in {namei(inodes, p)} :
        /\ ret' = [NoCall EXCEPT !.op = "read", !.path = p, !.threw = r.threw,
                                 !.data = [null |-> r.null, str |-> r.str]]
        /\ inodes' = IF n \in DOMAIN inodes /\ ~isDirectory(inodes[n])
                      THEN [inodes EXCEPT ![n].i_atime = MaxClock]
                      ELSE inodes
        /\ UNCHANGED <<nextInum, clock, lastWrite, other, ttt, wump>>

Read(p) ==
    \E r \in {read(inodes, p)} :
        /\ ret' = [NoCall EXCEPT !.op = "read", !.path = p, !.threw = r.threw,
                                 !.data = [null |-> r.null, str |-> r.str]]
        /\ UNCHANGED <<inodes, nextInum, clock, lastWrite, other, ttt, wump>>

Readdir(p) ==
    \E r \in {readdir(inodes, p)} :
        /\ ret' = [NoCall EXCEPT !.op = "readdir", !.path = p, !.threw = r.threw,
                                 !.entries = [null |-> r.null, list |-> r.list]]
        /\ UNCHANGED <<inodes, nextInum, clock, lastWrite, other, ttt, wump>>

\* Date.now() is read only when the write goes through
Write(p, c) ==
    \E now \in clock..MaxClock :
      \E w \in {write(inodes, p, c, now)} :
        /\ inodes' = w.tbl
        /\ clock' = IF w.ok THEN now ELSE clock
        /\ ret' = [NoCall EXCEPT !.op = "write", !.path = p, !.content = c,
                                 !.threw = w.threw, !.ok = w.ok,
                                 !.inode = w.inode]
        /\ lastWrite' = IF w.ok
                        THEN [lastWrite EXCEPT ![w.inode] = Str(c)]
                        ELSE lastWrite
        /\ UNCHANGED <<nextInum, other, ttt, wump>>

(***************************************************************************)
(* The construction helpers, called on a parent obtained from a path.      *)
(***************************************************************************)
MayAllocate == nextInum - FirstFree < MaxNew
Here == [inodes |-> inodes, nextInum |-> nextInum]

Built(op, r, parent, name, content, mode, now, payload) ==
    /\ inodes' = r.fs.inodes
    /\ nextInum' = r.fs.nextInum
    /\ clock' = now
    /\ ret' = [NoCall EXCEPT !.op = op, !.parent = parent, !.name = name,
                             !.content = content, !.mode = mode,
                             !.threw = r.threw, !.inode = r.new]
    /\ lastWrite' = MapSet(lastWrite, r.new, payload)
    /\ UNCHANGED <<other, ttt, wump>>

MkDir(pp, name) ==
    /\ MayAllocate
    /\ \E parent \in {namei(inodes, pp)} \cap DOMAIN inodes :
       \E now \in clock..MaxClock :
         \E r \in {_mkdir(Here, parent, name, now)} :
            Built("mkdir", r, parent, name, "", 0, now, Null)

MkDev(pp, name, mode) ==
    /\ MayAllocate
    /\ \E parent \in {namei(inodes, pp)} \cap DOMAIN inodes :
       \E now \in clock..MaxClock :
         \E r \in {_mkdev(Here, parent, name, mode, now)} :
            Built("mkdev", r, parent, name, "", mode, now, Null)

MkFile(pp, name, content, mode) ==
    /\ MayAllocate
    /\ \E parent \in {namei(inodes, pp)} \cap DOMAIN inodes :
       \E now \in clock..MaxClock :
         \E r \in {_mkfile(Here, parent, name, content, mode, now)} :
            Built("mkfile", r, parent, name, content, mode, now, Str(content))

(***************************************************************************)
(* Spec: a constructed filesystem used through its facade.                 *)
(* SpecBuild: the tree is also extended with the construction helpers.     *)
(***************************************************************************)
Next ==
    \/ \E p \in QueryPaths : Namei(p)
    \/ \E p \in QueryPaths : Stat(p)
    \/ \E p \in QueryPaths : Read(p)
    \/ \E p \in QueryPaths : Readdir(p)
    \/ \E p \in Paths, c \in Contents : Write(p, c)

Spec == Init /\ [][Next]_vars

NextBuild ==
    \/ \E pp \in ParentPaths, n \in Names : MkDir(pp, n)
    \/ \E pp \in ParentPaths, n \in Names, m \in DevModes : MkDev(pp, n, m)
    \/ \E pp \in ParentPaths, n \in Names, a \in FileArgs :
          MkFile(pp, n, a[1], a[2])
    \/ \E p \in BuildPaths, c \in BuildContents : Write(p, c)

\* the helpers are called some time after construction
InitBuild ==
    /\ Fresh.nextInum = FirstFree
    /\ inodes = Fresh.inodes
    /\ nextInum = Fresh.nextInum
    /\ clock = MaxClock
    /\ ret = NoCall
    /\ lastWrite = [i \in DOMAIN Fresh.inodes |-> Fresh.inodes[i].i_data]
    /\ other = Fresh
    /\ ttt = NewTicTacToe
    /\ wump = NewWumpGame

SpecBuild == InitBuild /\ [][NextBuild]_vars

(***************************************************************************)
(* Two instances.  new UnixFilesystem() makes a Map and a counter of its   *)
(* own for the instance; the first instance keeps its state in inodes and  *)
(* nextInum, the second in other.  ret.on names the instance called.       *)
(***************************************************************************)
Instances == {1, 2}

\* one static Map and counter for every instance
constructor_Static(k) == 1

\* the storage of the k-th instance constructed
constructor(k) == k

Cell(c) == IF c = 1 THEN Here ELSE other

CellNext(c) ==
    IF c = 1 THEN [inodes |-> inodes', nextInum |-> nextInum'] ELSE other'

Store(c, fs) ==
    IF c = 1
    THEN inodes' = fs.inodes /\ nextInum' = fs.nextInum /\ other' = other
    ELSE other' = fs /\ inodes' = inodes /\ nextInum' = nextInum

TwoPaths == {Str("/etc/passwd"), Str("/etc/f")}
TwoParents == {Str("/etc"), Str("/etc/passwd")}
TwoNames == {"f"}

TwoWrite(k, p, c) ==
    \E this \in {Cell(constructor(k))} :
      \E w \in {write(this.inodes, p, c, clock)} :
        /\ Store(constructor(k), [inodes |-> w.tbl, nextInum |-> this.nextInum])
        /\ ret' = [NoCall EXCEPT !.on = k, !.op = "write", !.path = p,
                                 !.content = c, !.threw = w.threw,
                                 !.ok = w.ok, !.inode = w.inode]
        /\ UNCHANGED <<clock, lastWrite, ttt, wump>>

TwoBuilt(k, op, r, parent, name, content, mode) ==
    /\ Store(constructor(k), r.fs)
    /\ ret' = [NoCall EXCEPT !.on = k, !.op = op, !.parent = parent,
                             !.name = name, !.content = content,
                             !.mode = mode, !.threw = r.threw, !.inode = r.new]
    /\ UNCHANGED <<clock, lastWrite, ttt, wump>>

TwoMkDir(k, pp, name) ==
    \E this \in {Cell(constructor(k))} :
      /\ this.nextInum - FirstFree < MaxNewTwo
      /\ \E parent \in {namei(this.inodes, pp)} \cap DOMAIN this.inodes :
           \E r \in {_mkdir(this, parent, name, clock)} :
              TwoBuilt(k, "mkdir", r, parent, name, "", 0)

TwoMkDev(k, pp, name, mode) ==
    \E this \in {Cell(constructor(k))} :
      /\ this.nextInum - FirstFree < MaxNewTwo
      /\ \E parent \in {namei(this.inodes, pp)} \cap DOMAIN this.inodes :
           \E r \in {_mkdev(this, parent, name, mode, clock)} :
              TwoBuilt(k, "mkdev", r, parent, name, "", mode)

TwoMkFile(k, pp, name, content, mode) ==
    \E this \in {Cell(constructor(k))} :
      /\ this.nextInum - FirstFree < MaxNewTwo
      /\ \E parent \in {namei(this.inodes, pp)} \cap DOMAIN this.inodes :
           \E r \in {_mkfile(this, parent, name, content, mode, clock)} :
              TwoBuilt(k, "mkfile", r, parent, name, content, mode)

NextTwo ==
    \/ \E k \in Instances, p \in TwoPaths, c \in BuildContents : TwoWrite(k, p, c)
    \/ \E k \in Instances, pp \in TwoParents, n \in TwoNames : TwoMkDir(k, pp, n)
    \/ \E k \in Instances, pp \in TwoParents, n \in TwoNames, m \in DevModes :
          TwoMkDev(k, pp, n, m)
    \/ \E k \in Instances, pp \in TwoParents, n \in TwoNames :
          TwoMkFile(k, pp, n, "ab", Perm644)

SpecTwo == InitBuild /\ [][NextTwo]_vars

(***************************************************************************)
(* getPermissionString of an Inode made with an arbitrary mode.            *)
(***************************************************************************)
\* each of owner, group and other rendered from its own three bits
getPermissionString_PerClass(ino) ==
    LET type == IF isDirectory(ino) THEN "d"
                ELSE IF isCharDevice(ino) THEN "c" ELSE "-"
        bit(flag, ch) == IF HasFlag(ino.i_mode, flag) THEN ch ELSE "-"
    IN  type \o bit(IREAD, "r") \o bit(IWRITE, "w") \o bit(IEXEC, "x")
             \o bit(IREAD \div 8, "r") \o bit(IWRITE \div 8, "w")
             \o bit(IEXEC \div 8, "x")
             \o bit(IREAD \div 64, "r") \o bit(IWRITE \div 64, "w")
             \o bit(IEXEC \div 64, "x")

getPermissionString(ino) ==
    LET type == IF isDirectory(ino) THEN "d"
                ELSE IF isCharDevice(ino) THEN "c" ELSE "-"
        r == IF HasFlag(ino.i_mode, IREAD) THEN "r" ELSE "-"
        w == IF HasFlag(ino.i_mode, IWRITE) THEN "w" ELSE "-"
        x == IF HasFlag(ino.i_mode, IEXEC) THEN "x" ELSE "-"
    IN  type \o r \o w \o x \o r \o w \o x \o r \o w \o x

Modes ==
    {alloc + type + owner + rest :
        alloc \in {0, IALLOC}, type \in {0, IFCHR, IFDIR, IFMT},
        owner \in {r + w + x : r \in {0, IREAD}, w \in {0, IWRITE}, x \in {0, IEXEC}},
        rest \in {0, 36, 45, 63}}

GetPermissionString(mode) ==
    /\ ret' = [NoCall EXCEPT !.op = "getPermissionString", !.mode = mode,
                  !.content = getPermissionString(Inode(nextInum, mode, clock))]
    /\ UNCHANGED <<inodes, nextInum, clock, lastWrite, other, ttt, wump>>

NextPerm == \E mode \in Modes : GetPermissionString(mode)

SpecPerm == Init /\ [][NextPerm]_vars

(***************************************************************************)
(* Tic-tac-toe: numbers and text.  A JavaScript number is a record, NaN    *)
(* or an integer.  Number and parseInt are given for text made of digits,  *)
(* "-", white space and letters other than a hexadecimal prefix, a         *)
(* fraction or an exponent, which no input below contains.                 *)
(***************************************************************************)
NaN == [nan |-> TRUE, val |-> 0]
Num(n) == [nan |-> FALSE, val |-> n]

Digits == "0123456789"

IsDigit(c) == \E d \in 0..9 : SubSeq(Digits, d + 1, d + 1) = c

DigitValue(c) == CHOOSE d \in 0..9 : SubSeq(Digits, d + 1, d + 1) = c

IsSpace(c) == c \in {" ", "\n", "\t"}

RECURSIVE TrimStart(_)
TrimStart(s) ==
    IF Len(s) > 0 /\ IsSpace(SubSeq(s, 1, 1))
    THEN TrimStart(SubSeq(s, 2, Len(s))) ELSE s

RECURSIVE TrimEnd(_)
TrimEnd(s) ==
    IF Len(s) > 0 /\ IsSpace(SubSeq(s, Len(s), Len(s)))
    THEN TrimEnd(SubSeq(s, 1, Len(s) - 1)) ELSE s

trim(s) == TrimEnd(TrimStart(s))

\* the length of the longest prefix of s made of digits
DigitPrefix(s) == MinOf({j \in 1..Len(s) : ~IsDigit(SubSeq(s, j, j))} \cup {Len(s) + 1}) - 1

RECURSIVE DigitsValue(_)
DigitsValue(s) ==
    IF Len(s) = 0 THEN 0
    ELSE 10 * DigitsValue(SubSeq(s, 1, Len(s) - 1)) + DigitValue(SubSeq(s, Len(s), Len(s)))

\* Number(text): the whole trimmed text is a numeral; the empty text is 0
Number(s) ==
    LET t == trim(s)
        neg == Len(t) > 0 /\ SubSeq(t, 1, 1) = "-"
        body == IF neg THEN SubSeq(t, 2, Len(t)) ELSE t
    IN  IF Len(t) = 0 THEN Num(0)
        ELSE IF Len(body) > 0 /\ DigitPrefix(body) = Len(body)
        THEN Num(IF neg THEN 0 - DigitsValue(body) ELSE DigitsValue(body))
        ELSE NaN

\* parseInt(text): the longest numeral the text starts with
parseInt(s) ==
    LET t == TrimStart(s)
        neg == Len(t) > 0 /\ SubSeq(t, 1, 1) = "-"
        body == IF neg THEN SubSeq(t, 2, Len(t)) ELSE t
        n == DigitPrefix(body)
    IN  IF n = 0 THEN NaN
        ELSE Num(IF neg THEN 0 - DigitsValue(SubSeq(body, 1, n))
                 ELSE DigitsValue(SubSeq(body, 1, n)))

\* `${n}` for an integer n
RECURSIVE ToDigits(_)
ToDigits(n) ==
    IF n < 10 THEN SubSeq(Digits, n + 1, n + 1)
    ELSE ToDigits(n \div 10) \o SubSeq(Digits, (n % 10) + 1, (n % 10) + 1)

NumberText(n) == IF n < 0 THEN "-" \o ToDigits(0 - n) ELSE ToDigits(n)

\* text.split(sep) for a separator of one character
RECURSIVE Split(_, _)
Split(s, sep) ==
    LET k == MinOf({j \in 1..Len(s) : SubSeq(s, j, j) = sep} \cup {Len(s) + 1})
    IN  IF k > Len(s) THEN <<s>>
        ELSE <<SubSeq(s, 1, k - 1)>> \o Split(SubSeq(s, k + 1, Len(s)), sep)

\* lines.join(sep)
RECURSIVE Join(_, _)
Join(lines, sep) ==
    IF Len(lines) = 0 THEN ""
    ELSE IF Len(lines) = 1 THEN lines[1]
    ELSE lines[1] \o sep \o Join(Tail(lines), sep)

\* response.trim().toLowerCase().startsWith('y')
StartsWithY(s) == Len(trim(s)) > 0 /\ SubSeq(trim(s), 1, 1) \in {"y", "Y"}

(***************************************************************************)
(* Tic-tac-toe: the board and the knowledge map.                           *)
(***************************************************************************)
WINS ==
    << <<0, 1, 2>>, <<3, 4, 5>>, <<6, 7, 8>>,
       <<0, 3, 6>>, <<1, 4, 7>>, <<2, 5, 8>>,
       <<0, 4, 8>>, <<2, 4, 6>> >>

RECURSIVE EncodeFrom(_, _, _)
EncodeFrom(board, i, result) ==
    IF i >= 9 THEN result
    ELSE EncodeFrom(board, i + 1, result * 3 + board[i + 1])

encodeBoard(board) == EncodeFrom(board, 0, 0)

RECURSIVE WinnerFrom(_, _)
WinnerFrom(board, k) ==
    IF k > Len(WINS) THEN EMPTY
    ELSE LET a == WINS[k][1] + 1
             b == WINS[k][2] + 1
             c == WINS[k][3] + 1
         IN  IF board[a] # EMPTY /\ board[a] = board[b] /\ board[b] = board[c]
             THEN board[a]
             ELSE WinnerFrom(board, k + 1)

checkWinner(board) == WinnerFrom(board, 1)

isFull(board) == \A i \in 1..9 : board[i] # EMPTY

\* knowledge.has(code), knowledge.get(code) || 0, knowledge.set(code, weight)
KnowledgeHas(knowledge, code) ==
    \E k \in 1..Len(knowledge) : knowledge[k].code = code

KnowledgeGet(knowledge, code) ==
    IF KnowledgeHas(knowledge, code)
    THEN knowledge[CHOOSE k \in 1..Len(knowledge) : knowledge[k].code = code].weight
    ELSE 0

KnowledgeSet(knowledge, code, weight) ==
    IF KnowledgeHas(knowledge, code)
    THEN [k \in 1..Len(knowledge) |->
            IF knowledge[k].code = code
            THEN [code |-> code, weight |-> weight] ELSE knowledge[k]]
    ELSE Append(knowledge, [code |-> code, weight |-> weight])

lookupWeight(knowledge, board) == KnowledgeGet(knowledge, encodeBoard(board))

\* the weight is not clamped
updateWeight_NoClamp(t, code, delta) ==
    [t EXCEPT !.knowledge = KnowledgeSet(@, code, KnowledgeGet(@, code) + delta),
              !.knowledgeDirty = TRUE]

updateWeight(t, code, delta) ==
    LET current == KnowledgeGet(t.knowledge, code)
        newWeight == MaxOf({-128, MinOf({127, current + delta})})
    IN  [t EXCEPT !.knowledge = KnowledgeSet(@, code, newWeight),
                  !.knowledgeDirty = TRUE]

(***************************************************************************)
(* computeMove: best is <<bestMove, bestWeight>> of the loop over cells.   *)
(***************************************************************************)
RECURSIVE BestFrom(_, _, _, _)
BestFrom(knowledge, board, i, best) ==
    IF i >= 9 THEN best
    ELSE IF board[i + 1] = EMPTY
    THEN LET weight == lookupWeight(knowledge, [board EXCEPT ![i + 1] = COMPUTER])
         IN  IF weight > best[2]
             THEN BestFrom(knowledge, board, i + 1, <<i, weight>>)
             ELSE BestFrom(knowledge, board, i + 1, best)
    ELSE BestFrom(knowledge, board, i + 1, best)

priority == <<4, 0, 2, 6, 8, 1, 3, 5, 7>>

computeMove(knowledge, board) ==
    LET best == BestFrom(knowledge, board, 0, <<-1, -1000>>)
        free == {k \in 1..Len(priority) : board[priority[k] + 1] = EMPTY}
    IN  IF (best[1] < 0 \/ best[2] = 0) /\ free # {}
        THEN priority[MinOf(free)]
        ELSE best[1]

(***************************************************************************)
(* updateKnowledge: the replay of moveHistory on tempBoard.                *)
(***************************************************************************)
Delta(outcome) ==
    IF outcome = COMPUTER THEN 3 ELSE IF outcome = EMPTY THEN 1 ELSE -2

RECURSIVE Replay(_, _, _, _)
Replay(t, tempBoard, i, delta) ==
    IF i >= Len(t.moveHistory) THEN t
    ELSE LET move == t.moveHistory[i + 1]
             next == [tempBoard EXCEPT ![move + 1] =
                          IF i % 2 = 0 THEN HUMAN ELSE COMPUTER]
         IN  IF i % 2 = 1
             THEN Replay(updateWeight(t, encodeBoard(next), delta), next, i + 1, delta)
             ELSE Replay(t, next, i + 1, delta)

updateKnowledge(t, outcome) == Replay(t, EmptyBoard, 0, Delta(outcome))

(***************************************************************************)
(* loadKnowledge and saveKnowledge.  A storage whose read() gives nothing  *)
(* is a storage that holds the empty text.                                 *)
(***************************************************************************)
RECURSIVE FilterLines(_)
FilterLines(lines) ==
    IF lines = <<>> THEN <<>>
    ELSE IF trim(Head(lines)) = "" THEN FilterLines(Tail(lines))
    ELSE <<Head(lines)>> \o FilterLines(Tail(lines))

RECURSIVE LoadLines(_, _)
LoadLines(knowledge, lines) ==
    IF lines = <<>> THEN knowledge
    ELSE LET parts == Split(Head(lines), ":")
             code == Number(parts[1])
             weight == IF Len(parts) >= 2 THEN Number(parts[2]) ELSE NaN
         IN  IF ~code.nan /\ ~weight.nan
             THEN LoadLines(KnowledgeSet(knowledge, code.val, weight.val), Tail(lines))
             ELSE LoadLines(knowledge, Tail(lines))

loadKnowledge(t) ==
    IF t.storage.null THEN t
    ELSE IF t.storage.str = "" THEN t
    ELSE [t EXCEPT !.knowledge =
              LoadLines(<<>>, FilterLines(Split(t.storage.str, "\n")))]

saveKnowledge(t) ==
    IF t.storage.null \/ ~t.knowledgeDirty THEN t
    ELSE [t EXCEPT !.storage =
              Str(Join([k \in 1..Len(t.knowledge) |->
                          NumberText(t.knowledge[k].code) \o ":"
                              \o NumberText(t.knowledge[k].weight)], "\n")),
                   !.knowledgeDirty = FALSE]

(***************************************************************************)
(* run(): the steps between two reads of the input.  pc is "new" before    *)
(* run() is called, "turn" at the read of the human's move, "over" when    *)
(* the inner loop is left with gameOver set, "returned" after run()        *)
(* returned at the end of the input.                                       *)
(***************************************************************************)
fsvars == <<inodes, nextInum, clock, ret, lastWrite, other>>

Storages ==
    {Null, Str(""),
     Str("6723:-127\n16848:-127\n\n7\nx:1\n:4\n13203:126"),
     Str("5:300\n20000:1")}

Responses == {Null, Str("n"), Str(" Yes")}

Inputs ==
    {Null} \cup {Str(s) : s \in {"1", "2", "6", "7", "8",
                                 " 5x", "0", "10", ""}}

\* the inner loop is left: updateKnowledge(outcome), gameOver = true
GameOver(t, outcome) ==
    [updateKnowledge(t, outcome) EXCEPT !.pc = "over",
                                        !.calls = Append(@, outcome)]

Place(t, move, mark) ==
    [t EXCEPT !.board[move + 1] = mark, !.moveHistory = Append(@, move)]

\* lines 401-420: the computer's turn
ComputerTurn(t) ==
    LET compMove == computeMove(t.knowledge, t.board)
    IN  IF compMove < 0 THEN GameOver(t, HUMAN)
        ELSE IF checkWinner(Place(t, compMove, COMPUTER).board) = COMPUTER
        THEN GameOver(Place(t, compMove, COMPUTER), COMPUTER)
        ELSE Place(t, compMove, COMPUTER)

\* lines 381-399: the human's mark
HumanTurn(t, move) ==
    LET marked == Place(t, move, HUMAN)
    IN  IF checkWinner(marked.board) = HUMAN THEN GameOver(marked, HUMAN)
        ELSE IF isFull(marked.board) THEN GameOver(marked, EMPTY)
        ELSE ComputerTurn(marked)

\* moveHistory is not reset
NewGame_KeepHistory(t) ==
    [t EXCEPT !.board = EmptyBoard, !.calls = <<>>, !.pc = "turn"]

\* lines 355-356: the top of the outer loop
NewGame(t) ==
    [t EXCEPT !.board = EmptyBoard, !.moveHistory = <<>>, !.calls = <<>>,
              !.pc = "turn"]

Run(response) ==
    /\ ttt.pc = "new"
    /\ ttt' = NewGame(IF ~response.null /\ StartsWithY(response.str)
                      THEN loadKnowledge(ttt) ELSE ttt)
    /\ UNCHANGED <<fsvars, wump>>

\* lines 366-420: one pass of the inner loop, on the input it reads
TurnOn(t, input) ==
    IF input.null THEN [t EXCEPT !.pc = "returned"]
    ELSE Bind(parseInt(trim(input.str)), LAMBDA move :
            IF move.nan \/ move.val - 1 < 0 \/ move.val - 1 > 8 THEN t
            ELSE IF t.board[move.val] # EMPTY THEN t
            ELSE HumanTurn(t, move.val - 1))

Turn(input) ==
    /\ ttt.pc = "turn"
    /\ ttt.games < MaxGames
    /\ ttt' = TurnOn(ttt, input)
    /\ UNCHANGED <<fsvars, wump>>

\* lines 423-427 and the next pass of the outer loop
NextGame ==
    /\ ttt.pc = "over"
    /\ ttt' = NewGame([saveKnowledge(ttt) EXCEPT !.games = @ + 1])
    /\ UNCHANGED <<fsvars, wump>>

NextTtt ==
    \/ \E response \in Responses : Run(response)
    \/ \E input \in Inputs : Turn(input)
    \/ NextGame

InitTtt ==
    /\ inodes = Fresh.inodes
    /\ nextInum = Fresh.nextInum
    /\ clock = 0
    /\ ret = NoCall
    /\ lastWrite = [i \in DOMAIN Fresh.inodes |-> Fresh.inodes[i].i_data]
    /\ other = Fresh
    /\ ttt \in {TicTacToe(storage) : storage \in Storages}
    /\ wump = NewWumpGame

SpecTtt == InitTtt /\ [][NextTtt]_vars

(***************************************************************************)
(* Hunt the Wumpus.  Math.random() gives one of a few values, written in   *)
(* hundredths; randomRoom, the test of moveWumpus and the choice of a      *)
(* tunnel compute on them as the code does.  A method that draws random    *)
(* values is the set of the objects it can leave behind.                   *)
(***************************************************************************)
numRooms == 20

CAVE_MAP ==
    << <<2, 5, 8>>, <<1, 3, 10>>, <<2, 4, 12>>, <<3, 5, 14>>, <<1, 4, 6>>,
       <<5, 7, 15>>, <<6, 8, 17>>, <<1, 7, 9>>, <<8, 10, 18>>, <<2, 9, 11>>,
       <<10, 12, 19>>, <<3, 11, 13>>, <<12, 14, 20>>, <<4, 13, 15>>,
       <<6, 14, 16>>, <<15, 17, 20>>, <<7, 16, 18>>, <<9, 17, 19>>,
       <<11, 18, 20>>, <<13, 16, 19>> >>

Randoms == {0, 5, 10, 15, 20, 80}

\* Math.floor(Math.random() * this.numRooms) + 1
randomRoom(r) == (r * numRooms) \div 100 + 1

RandomRooms == {randomRoom(r) : r \in Randoms}

adjacent(room) == CAVE_MAP[room]

Includes(list, x) == \E i \in 1..Len(list) : list[i] = x

\* room2 is a number or NaN
isAdjacent(room1, room2) == ~room2.nan /\ Includes(adjacent(room1), room2.val)

\* adj[Math.floor(Math.random() * adj.length)]
RandomTunnels(room) ==
    {adjacent(room)[(r * Len(adjacent(room))) \div 100 + 1] : r \in Randoms}

\* arrows is left as it was
setup_KeepArrows(w, player, wumpus, pits, bats) ==
    [w EXCEPT !.player = player, !.wumpus = wumpus, !.pits = pits,
              !.bats = bats, !.shots = 0]

\* the object setup leaves when its loops ended on the given rooms
setup(w, player, wumpus, pits, bats) ==
    [w EXCEPT !.player = player, !.wumpus = wumpus, !.pits = pits,
              !.bats = bats, !.arrows = 5, !.shots = 0]

\* moveWumpus: the rooms the wumpus can be in afterwards
moveWumpus(w) ==
    {w.wumpus : r \in {x \in Randoms : ~(x < 75)}}
        \cup (IF \E r \in Randoms : r < 75 THEN RandomTunnels(w.wumpus) ELSE {})

\* enterRoom: seen holds the bat rooms the player was carried from
RECURSIVE enterRoom(_, _)
enterRoom(w, seen) ==
    IF w.player \in w.pits THEN {[w EXCEPT !.result = "lose"]}
    ELSE IF w.player = w.wumpus THEN {[w EXCEPT !.result = "lose"]}
    ELSE IF w.player \in w.bats
    THEN IF w.player \in seen THEN {}
         ELSE UNION {enterRoom([w EXCEPT !.player = room], seen \cup {w.player}) :
                        room \in RandomRooms}
    ELSE {[w EXCEPT !.result = "continue"]}

\* the player is moved before the tunnels are looked at
move_ThroughWalls(w, room) == enterRoom([w EXCEPT !.player = room], {})

move(w, room) ==
    IF ~isAdjacent(w.player, Num(room)) THEN {[w EXCEPT !.result = "continue"]}
    ELSE enterRoom([w EXCEPT !.player = room], {})

\* the flight of the arrow: "win", "lose", or "miss" at the end of the path
RECURSIVE Fly(_, _, _)
Fly(w, current, path) ==
    IF path = <<>> THEN {"miss"}
    ELSE UNION {IF next = w.wumpus THEN {"win"}
                ELSE IF next = w.player THEN {"lose"}
                ELSE Fly(w, next, Tail(path)) :
                   next \in IF isAdjacent(current, Head(path))
                            THEN {Head(path).val}
                            ELSE RandomTunnels(current)}

shoot(w, path) ==
    LET shot == [w EXCEPT !.arrows = @ - 1, !.shots = @ + 1]
        flight == Fly(shot, shot.player, path)
    IN  {[shot EXCEPT !.result = r] : r \in flight \ {"miss"}}
          \cup (IF "miss" \in flight
                THEN {[shot EXCEPT !.wumpus = room,
                                   !.result = IF room = shot.player THEN "lose"
                                              ELSE IF shot.arrows = 0 THEN "lose"
                                              ELSE "continue"] :
                         room \in moveWumpus(shot)}
                ELSE {})

(***************************************************************************)
(* WumpGame.run().  A command is the lines one pass of the inner loop      *)
(* reads; a read past its last line is the end of the input.  pc is "new"  *)
(* before run(), "play" at the read of a command, "again" at the question  *)
(* after a game, "returned" after run() returned.                          *)
(***************************************************************************)
StartsWith(s, letters) == Len(trim(s)) > 0 /\ SubSeq(trim(s), 1, 1) \in letters

LineAt(lines, i) == IF i <= Len(lines) THEN Str(lines[i]) ELSE Null

\* !line: the end of the input or an empty line
Falsy(line) == line.null \/ line.str = ""

\* lines 449-457: the path read from line i on, Null when the input ends
RECURSIVE ReadPath(_, _, _)
ReadPath(lines, i, path) ==
    IF ~(Len(path) < 5) THEN Entries(path)
    ELSE IF Falsy(LineAt(lines, i)) THEN NullEntries
    ELSE LET room == parseInt(trim(lines[i]))
         IN  IF ~room.nan /\ room.val = 0 THEN Entries(path)
             ELSE IF ~room.nan /\ (room.val < 1 \/ room.val > numRooms)
             THEN ReadPath(lines, i + 1, path)
             ELSE ReadPath(lines, i + 1, Append(path, room))

RunReturned(w) == {[w EXCEPT !.pc = "returned"]}

\* lines 430-464: one pass of the inner loop
CommandOn(w, lines) ==
    IF Falsy(LineAt(lines, 1)) THEN RunReturned(w)
    ELSE IF StartsWith(lines[1], {"m", "M"})
    THEN IF Falsy(LineAt(lines, 2)) THEN RunReturned(w)
         ELSE LET room == parseInt(trim(lines[2]))
              IN  IF room.nan \/ room.val < 1 \/ room.val > numRooms THEN {w}
                  ELSE move(w, room.val)
    ELSE IF StartsWith(lines[1], {"s", "S"})
    THEN LET path == ReadPath(lines, 2, <<>>)
         IN  IF path.null THEN RunReturned(w)
             ELSE IF Len(path.list) = 0 THEN {w}
             ELSE shoot(w, path.list)
    ELSE {w}

Commands ==
    { <<>>, <<"q">>, <<"m", "x">>, <<"m", "21">>, <<" Move", "6">>,
      <<"m", "2">>, <<"s", "0">>, <<"s", "2", "0">>,
      <<"S", "x", "21", " 5", "0">> }

Answers == {Null, Str("n"), Str("y")}

\* the answers to 'Another game?' and 'Same room setup?'
AgainAnswers == {<<Null, Null>>, <<Str("n"), Null>>, <<Str(" Yes"), Str("n")>>}

\* line 425: this.setup() at the top of the outer loop; each loop of setup
\* ends on rooms that pass its test
Pairs(rooms) == {pair \in SUBSET rooms : Cardinality(pair) = 2}

SetUp(w) ==
    \E player \in RandomRooms :
    \E wumpus \in RandomRooms \ {player} :
    \E pits \in Pairs(RandomRooms \ {player, wumpus}) :
    \E bats \in Pairs(RandomRooms \ ({player, wumpus} \cup pits)) :
        wump' = [setup(w, player, wumpus, pits, bats)
                     EXCEPT !.pc = "play", !.result = "continue"]

RunWump(wantInstr) ==
    /\ wump.pc = "new"
    /\ SetUp(wump)
    /\ UNCHANGED <<fsvars, ttt>>

Command(lines) ==
    /\ wump.pc = "play"
    /\ \E next \in CommandOn(wump, lines) :
          wump' = IF next.pc = "play" /\ next.result # "continue"
                  THEN [next EXCEPT !.pc = "again"] ELSE next
    /\ UNCHANGED <<fsvars, ttt>>

\* lines 467-476: the questions after a game
Again(again, same) ==
    /\ wump.pc = "again"
    /\ IF ~Falsy(again) /\ StartsWith(again.str, {"y", "Y"})
       THEN SetUp(wump)
       ELSE wump' = [wump EXCEPT !.pc = "returned"]
    /\ UNCHANGED <<fsvars, ttt>>

NextWump ==
    \/ \E wantInstr \in Answers : RunWump(wantInstr)
    \/ \E lines \in Commands : Command(lines)
    \/ \E answers \in AgainAnswers : Again(answers[1], answers[2])

SpecWump == Init /\ [][NextWump]_vars

(***************************************************************************)
(* Properties.                                                             *)
(***************************************************************************)
Resolves(tbl, path) == namei(tbl, path) \in DOMAIN tbl

RegularAt(tbl, path) ==
    Resolves(tbl, path) /\ isRegular(tbl[namei(tbl, path)])

DirectoryAt(tbl, path) ==
    Resolves(tbl, path) /\ isDirectory(tbl[namei(tbl, path)])

Returned(payload) == [threw |-> FALSE, null |-> payload.null, str |-> payload.str]

\* C1: a write to a path that resolves to a regular file returns true and a
\* following read of that path returns exactly the payload written; after
\* any sequence of facade operations a read of a path that resolves to a
\* regular file returns the payload of the latest successful write to that
\* inode, or the payload it was constructed with if it was never written.
C1_WriteThenRead ==
    /\ (ret.op = "write" /\ RegularAt(inodes, ret.path))
          => /\ ret.ok /\ ~ret.threw
             /\ read(inodes, ret.path) = Returned(Str(ret.content))
    /\ \A P \in QueryPaths :
          RegularAt(inodes, P)
             => read(inodes, P) = Returned(lastWrite[namei(inodes, P)])

C1_Witness ==
    /\ ret.op = "write" /\ ret.ok
    /\ ret.path = Str("/usr/games/ttt.k") /\ ret.content = "ab"
    /\ RegularAt(inodes, ret.path)
    /\ read(inodes, Str("/usr/games/../games//ttt.k")).str = "ab"

\* C2: a write to a path that does not resolve, or that resolves to a
\* directory, returns false and changes nothing: the table (every inode's
\* fields, every entry list, the set of identifiers) and the next identifier
\* are as before the call.
C2_FailedWriteChangesNothing ==
    [][(ret'.op = "write"
          /\ (namei(inodes, ret'.path) = Absent \/ DirectoryAt(inodes, ret'.path)))
        => (/\ ~ret'.ok /\ ~ret'.threw
            /\ inodes' = inodes
            /\ nextInum' = nextInum)]_vars

C2_Witness ==
    /\ ret.op = "write" /\ ret.path = Str("/usr") /\ ret.content = "ab"
    /\ ~ret.ok
    /\ DirectoryAt(inodes, ret.path)
    /\ inodes[namei(inodes, ret.path)].i_data.null

\* C3: whatever mkfile and write calls were made, the recorded size of every
\* regular file is the length of its payload.
C3_SizeIsPayloadLength ==
    \A i \in DOMAIN inodes :
        isRegular(inodes[i])
           => /\ ~inodes[i].i_data.null
              /\ inodes[i].i_size = Len(inodes[i].i_data.str)

C3_Witness ==
    /\ ret.op = "write" /\ ret.ok /\ ret.inode >= FirstFree
    /\ isRegular(inodes[ret.inode])
    /\ inodes[ret.inode].i_size = 3

\* C4: payload and entries exclude each other by kind: a directory holds
\* entries and no payload, a regular file a payload and no entries, a
\* character device neither.
C4_PayloadAndEntriesByKind ==
    \A i \in DOMAIN inodes :
        /\ isDirectory(inodes[i])
              => (~inodes[i].i_entries.null /\ inodes[i].i_data.null)
        /\ isRegular(inodes[i])
              => (~inodes[i].i_data.null /\ inodes[i].i_entries.null)
        /\ isCharDevice(inodes[i])
              => (inodes[i].i_data.null /\ inodes[i].i_entries.null)

Names_(list) == {list[i].name : i \in 1..Len(list)}

\* C5 as stated: on the constructed tree readdir("/dev") returns exactly 3
\* entries, named tty, null and mem.
C5_DevHasThreeEntries ==
    (ret.op = "readdir" /\ ret.path = Str("/dev"))
       => /\ ~ret.entries.null
          /\ Len(ret.entries.list) = 3
          /\ Names_(ret.entries.list) = {"tty", "null", "mem"}

\* C5 amended: on the constructed tree readdir("/dev") returns exactly 5
\* entries: "." and ".." first, then exactly 3 entries named tty, null, mem.
C5_DevEntries ==
    /\ (ret.op = "readdir" /\ ret.path = Str("/dev"))
          => /\ ~ret.entries.null /\ ~ret.threw
             /\ Len(ret.entries.list) = 5
             /\ ret.entries.list[1].name = "."
             /\ ret.entries.list[2].name = ".."
             /\ Names_(SubSeq(ret.entries.list, 3, 5)) = {"tty", "null", "mem"}
    /\ Len(readdir(inodes, Str("/dev")).list) = 5
    /\ \A i \in 3..5 : isCharDevice(inodes[readdir(inodes, Str("/dev")).list[i].inode])

C5_Witness ==
    /\ ret.op = "readdir" /\ ret.path = Str("/dev")
    /\ Len(ret.entries.list) = 5
    /\ Names_(ret.entries.list) = {".", "..", "tty", "null", "mem"}

NameList(list) == [i \in 1..Len(list) |-> list[i].name]

\* C6: readdir returns the entries in insertion order: "." (the directory
\* itself) first, ".." second, then the children in the order they were
\* created; readdir("/usr") returns ".", "..", games, lib, bin, sys in that
\* order, each with the inode its identifier maps to.
C6_ReaddirInsertionOrder ==
    /\ \A P \in QueryPaths :
          DirectoryAt(inodes, P)
             => LET r == readdir(inodes, P)
                IN  /\ ~r.null /\ ~r.threw /\ Len(r.list) >= 2
                    /\ r.list[1].name = "." /\ r.list[1].inode = namei(inodes, P)
                    /\ r.list[2].name = ".."
                    /\ \A i \in 3..Len(r.list) :
                          /\ r.list[i].inode \in DOMAIN inodes
                          /\ inodes[r.list[i].inode].i_number = r.list[i].inode
                          /\ \A j \in 3..Len(r.list) :
                                i < j => r.list[i].inode < r.list[j].inode
    /\ (ret.op = "readdir" /\ ret.path = Str("/usr"))
          => /\ NameList(ret.entries.list)
                  = <<".", "..", "games", "lib", "bin", "sys">>
             /\ ret.entries.list[1].inode = namei(inodes, Str("/usr"))
             /\ ret.entries.list[2].inode = rootInum
             /\ ret.entries.list[3].inode = namei(inodes, Str("/usr/games"))
             /\ ret.entries.list[4].inode = namei(inodes, Str("/usr/lib"))
             /\ ret.entries.list[5].inode = namei(inodes, Str("/usr/bin"))
             /\ ret.entries.list[6].inode = namei(inodes, Str("/usr/sys"))

C6_Witness ==
    /\ ret.op = "readdir" /\ ret.path = Str("/usr")
    /\ Len(ret.entries.list) = 6
    /\ ret.entries.list[3] = [name |-> "games", inode |-> 7]
    /\ ret.entries.list[6] = [name |-> "sys", inode |-> 10]

\* the paths got from s by doubling one of its slashes or by appending one
MoreSlashes(s) ==
    {s \o "/"} \cup
    {SubSeq(s, 1, i) \o "/" \o SubSeq(s, i + 1, Len(s)) :
        i \in {j \in 1..Len(s) : SubSeq(s, j, j) = "/"}}

MoreSlashesTwice(s) ==
    MoreSlashes(s) \cup UNION {MoreSlashes(t) : t \in MoreSlashes(s)}

SlashesOnly == {"/", "//", "///"}

\* C7 as stated: for every path P, adding consecutive or trailing slashes
\* gives a path that resolves as P does, and a path of slashes only
\* resolves to the root, inode 1.
C7_SlashesTransparent ==
    /\ (ret.op = "namei" /\ ~ret.path.null)
          => \A q \in MoreSlashesTwice(ret.path.str) :
                namei(inodes, Str(q)) = ret.inode
    /\ \A q \in SlashesOnly : namei(inodes, Str(q)) = rootInum

\* C7 amended: for every non-empty path P, adding consecutive or trailing
\* slashes gives a path that resolves as P does (the same inode, or absent
\* when P is absent), and a path of slashes only resolves to the root.
C7_SlashesTransparentNonEmpty ==
    /\ (ret.op = "namei" /\ ~ret.path.null /\ ret.path.str # "")
          => \A q \in MoreSlashesTwice(ret.path.str) :
                namei(inodes, Str(q)) = ret.inode
    /\ \A s \in QueryStrings \ {""} :
          \A q \in MoreSlashes(s) :
             namei(inodes, Str(q)) = namei(inodes, Str(s))
    /\ \A q \in SlashesOnly : namei(inodes, Str(q)) = rootInum
    /\ namei(inodes, Str("//usr//games")) = namei(inodes, Str("/usr/games"))

C7_Witness ==
    /\ ret.op = "namei" /\ ret.path = Str("//usr//games")
    /\ ret.inode = 7
    /\ namei(inodes, Str("/usr/games")) = 7
    /\ namei(inodes, Str("//usr///games//")) = 7

Unresolvable ==
    {Null} \cup {Str(s) : s \in {"", "/nope", "/usr/nope/x", "/usr/games/ttt.k/x",
                                 "/etc/passwd/x", "/dev/tty/x"}}

\* C8: namei reports every failure by returning the absence value and
\* never by throwing: absent for the empty string, for a null path, for a
\* segment that matches no entry and for a step through a non-directory;
\* stat, read, readdir and write never throw on an unresolvable path.
C8_FailureIsAbsence ==
    /\ ~ret.threw
    /\ \A P \in QueryPaths \cup Unresolvable : namei(inodes, P) # Throws
    /\ \A P \in Unresolvable :
          /\ namei(inodes, P) = Absent
          /\ stat(inodes, P) = Absent
          /\ read(inodes, P) = [threw |-> FALSE, null |-> TRUE, str |-> ""]
          /\ readdir(inodes, P) = [threw |-> FALSE, null |-> TRUE, list |-> <<>>]
          /\ \A c \in Contents :
                LET w == write(inodes, P, c, clock)
                IN  ~w.threw /\ ~w.ok /\ w.tbl = inodes
    /\ (ret.op \in {"namei", "stat"} /\ ret.path \in Unresolvable)
          => ret.inode = Absent
    /\ (ret.op = "write" /\ ret.path \in Unresolvable) => ~ret.ok

C8_Witness ==
    /\ ret.op = "namei" /\ ret.path = Str("/usr/games/ttt.k/x")
    /\ ret.inode = Absent /\ ~ret.threw
    /\ isRegular(inodes[namei(inodes, Str("/usr/games/ttt.k"))])
    /\ namei(inodes, Null) = Absent

\* C9: on the constructed tree and after any sequence of facade
\* operations, stat finds "/", "/bin" and "/usr/games" as directories (not
\* regular) and "/usr/games/wump" and "/etc/passwd" as regular files (not
\* directories).
C9_BootstrapKinds ==
    /\ \A s \in {"/", "/bin", "/usr/games"} :
          LET n == stat(inodes, Str(s))
          IN  n \in DOMAIN inodes
              /\ isDirectory(inodes[n]) /\ ~isRegular(inodes[n])
    /\ \A s \in {"/usr/games/wump", "/etc/passwd"} :
          LET n == stat(inodes, Str(s))
          IN  n \in DOMAIN inodes
              /\ isRegular(inodes[n]) /\ ~isDirectory(inodes[n])
    /\ (ret.op = "stat" /\ ret.path \in {Str("/"), Str("/bin"), Str("/usr/games")})
          => (ret.inode \in DOMAIN inodes /\ isDirectory(inodes[ret.inode]))
    /\ (ret.op = "stat" /\ ret.path \in {Str("/usr/games/wump"), Str("/etc/passwd")})
          => (ret.inode \in DOMAIN inodes /\ isRegular(inodes[ret.inode]))

C9_Witness ==
    /\ ret.op = "stat" /\ ret.path = Str("/usr/games/wump")
    /\ ret.inode = 21 /\ isRegular(inodes[21])
    /\ \E i \in DOMAIN inodes : lastWrite[i] = Str("ab")

\* what C10 promises of the inode found at P/name after the call
MkfileVisible(P) ==
    LET n == stat(inodes', Str(P.str \o "/" \o ret'.name))
    IN  /\ n = ret'.inode
        /\ n \notin DOMAIN inodes
        /\ n \in DOMAIN inodes'
        /\ inodes'[n].i_size = Len(ret'.content)
        /\ inodes'[n].i_nlink = 1
        /\ inodes'[n].i_mode = IALLOC + ret'.mode
        /\ TypeBits(inodes'[n].i_mode) = 0

MkfileOnDirectoryAt(P) ==
    /\ ret'.op = "mkfile"
    /\ namei(inodes, P) = ret'.parent
    /\ isDirectory(inodes[ret'.parent])

NameTaken(tbl, dir, name) ==
    \E i \in 1..Len(tbl[dir].i_entries.list) :
        tbl[dir].i_entries.list[i].name = name

HasSlash(name) == \E i \in 1..Len(name) : SubSeq(name, i, i) = "/"

\* C10 as stated: after mkfile(parent, name, payload, bits) on a directory
\* parent found at path P, stat(P/name) is the new inode, its size the
\* payload length, link count 1, a fresh identifier, mode 0o100000 plus the
\* requested bits and no type bits.
C10_MkfileThenStat ==
    [][\A P \in ParentPaths : MkfileOnDirectoryAt(P) => MkfileVisible(P)]_vars

\* C10 amended: the same, provided name is non-empty, at most 14 characters
\* long, holds no "/" and names no entry the parent already has.
C10_MkfileThenStatFreshName ==
    [][\A P \in ParentPaths :
          (/\ MkfileOnDirectoryAt(P)
           /\ ret'.name # "" /\ Len(ret'.name) <= NameMax /\ ~HasSlash(ret'.name)
           /\ ~NameTaken(inodes, ret'.parent, ret'.name))
             => (~ret'.threw /\ MkfileVisible(P))]_vars

C10_Witness ==
    /\ ret.op = "mkfile" /\ ret.name = "f" /\ ret.content = "ab"
    /\ ret.mode = Perm644 /\ ~ret.threw
    /\ stat(inodes, Str("/etc/f")) = ret.inode
    /\ ret.inode = FirstFree
    /\ inodes[ret.inode].i_size = 2
    /\ inodes[ret.inode].i_mode = IALLOC + Perm644

MkOps == {"mkdir", "mkfile", "mkdev"}

\* C11: mkdir, mkfile and mkdev on a parent that is not a directory (a
\* regular file or a character device) fail, and the failure leaves the
\* table unchanged: no inode is allocated, the next identifier is not
\* consumed.
C11_BadParentChangesNothing ==
    [][(ret'.op \in MkOps /\ ~isDirectory(inodes[ret'.parent]))
          => (ret'.threw /\ inodes' = inodes /\ nextInum' = nextInum)]_vars

Dirs(tbl) == {i \in DOMAIN tbl : isDirectory(tbl[i])}

DirPaths == {Str(s) : s \in {"/", "/etc", "/usr", "/usr/games", "/etc/f"}}

\* every directory starts with "." (itself) and ".." (the directory that
\* holds it; the root for the root)
DotAndDotDot ==
    \A d \in Dirs(inodes) :
        LET l == inodes[d].i_entries.list
        IN  /\ ~inodes[d].i_entries.null
            /\ Len(l) >= 2
            /\ l[1] = [inum |-> d, name |-> "."]
            /\ l[2].name = ".."
            /\ (d = rootInum => l[2].inum = rootInum)
            /\ \A p \in Dirs(inodes) :
                  \A i \in 3..Len(inodes[p].i_entries.list) :
                     inodes[p].i_entries.list[i].inum = d => l[2].inum = p

FirstOfName(l, i) == \A j \in 1..(i - 1) : l[j].name # l[i].name

\* C12 as stated: every directory starts with "." pointing to itself and
\* ".." pointing to its parent (root's to the root); so for every directory
\* at path P, namei(P/.) = namei(P) and, for every child directory C of
\* it, namei(P/C/..) = namei(P).
C12_DotEntries ==
    /\ DotAndDotDot
    /\ \A P \in DirPaths :
          DirectoryAt(inodes, P)
             => /\ namei(inodes, Str(P.str \o "/.")) = namei(inodes, P)
                /\ LET l == inodes[namei(inodes, P)].i_entries.list
                   IN  \A i \in 3..Len(l) :
                          isDirectory(inodes[l[i].inum])
                             => namei(inodes, Str(P.str \o "/" \o l[i].name \o "/.."))
                                   = namei(inodes, P)

\* C12 amended: the same, for every child directory C whose name is
\* non-empty, holds no "/" and is the name of no earlier entry of P.
C12_DotEntriesFirstName ==
    /\ DotAndDotDot
    /\ \A P \in DirPaths :
          DirectoryAt(inodes, P)
             => /\ namei(inodes, Str(P.str \o "/.")) = namei(inodes, P)
                /\ LET l == inodes[namei(inodes, P)].i_entries.list
                   IN  \A i \in 3..Len(l) :
                          (/\ isDirectory(inodes[l[i].inum])
                           /\ l[i].name # "" /\ ~HasSlash(l[i].name)
                           /\ FirstOfName(l, i))
                             => namei(inodes, Str(P.str \o "/" \o l[i].name \o "/.."))
                                   = namei(inodes, P)

C12_Witness ==
    /\ ret.op = "mkdir" /\ ~ret.threw /\ ret.name = "f"
    /\ inodes[ret.parent].i_entries.list[2].inum = 4
    /\ ret.inode = FirstFree + 1
    /\ namei(inodes, Str("/etc/f/f/..")) = ret.parent
    /\ namei(inodes, Str("/etc/f/f/.")) = ret.inode

KeysAreAPrefix ==
    /\ DOMAIN inodes = 1..(nextInum - 1)
    /\ \A i \in DOMAIN inodes : inodes[i].i_number = i
    /\ rootInum \in DOMAIN inodes
    /\ namei(inodes, Str("/")) = rootInum

KeysOnlyGrow ==
    /\ DOMAIN inodes \subseteq DOMAIN inodes'
    /\ nextInum' >= nextInum
    /\ DOMAIN inodes' \ DOMAIN inodes = nextInum..(nextInum' - 1)
    /\ \A i \in DOMAIN inodes : inodes'[i].i_number = inodes[i].i_number

\* C13: inode identifiers are unique, assigned in increasing order from 1
\* with the root always 1, and never reused or freed: the keys of the
\* table are exactly 1..nextInum-1, each inode's stored identifier is its
\* key, and no operation removes a key.
C13_IdentifiersMonotonic == []KeysAreAPrefix /\ [][KeysOnlyGrow]_vars

C13_Witness ==
    /\ ret.op \in MkOps /\ ret.threw
    /\ nextInum = FirstFree + 2
    /\ DOMAIN inodes = 1..(FirstFree + 1)
    /\ ret.inode = FirstFree + 1
    /\ inodes[ret.inode].i_number = ret.inode

\* the entries after "." and ".." that point to inode n
LinksTo(tbl, n) ==
    UNION {{<<p, i>> : i \in {j \in 3..Len(tbl[p].i_entries.list) :
                                 tbl[p].i_entries.list[j].inum = n}} :
           p \in Dirs(tbl)}

\* the inodes namei finds one segment below the directories of S
StepBelow(tbl, S) ==
    S \cup {n \in DOMAIN tbl :
              \E p \in S \cap Dirs(tbl) :
                 \E i \in 1..Len(tbl[p].i_entries.list) :
                    LET e == tbl[p].i_entries.list[i]
                    IN  /\ e.inum = n
                        /\ e.name # "" /\ ~HasSlash(e.name)
                        /\ _lookup(tbl, p, e.name) = n}

RECURSIVE Closure(_, _)
Closure(tbl, S) ==
    CHOOSE R \in {IF T = S THEN S ELSE Closure(tbl, T) : T \in {StepBelow(tbl, S)}} : TRUE

\* C14: after bootstrap and any sequence of mkdir/mkfile/mkdev calls, every
\* non-root inode is referenced by exactly one entry other than "." and
\* "..", in exactly one directory, and is reachable from the root by namei.
C14_NoOrphans ==
    /\ \A n \in DOMAIN inodes \ {rootInum} : Cardinality(LinksTo(inodes, n)) = 1
    /\ Closure(inodes, {rootInum}) = DOMAIN inodes

\* the entry sequence of directory d as readdir hands it out
Listing(tbl, d) ==
    [i \in 1..Len(tbl[d].i_entries.list) |->
        [name |-> tbl[d].i_entries.list[i].name,
         inode |-> tbl[d].i_entries.list[i].inum]]

ReaddirContract(P, r) ==
    LET n == namei(inodes, P)
    IN  /\ ~r.threw
        /\ (n = Absent \/ ~isDirectory(inodes[n])) => (r.null /\ r.list = <<>>)
        /\ (n # Absent /\ isDirectory(inodes[n]))
              => (~r.null /\ r.list = Listing(inodes, n))

ReadContract(P, r) ==
    LET n == namei(inodes, P)
    IN  /\ ~r.threw
        /\ (n = Absent \/ isDirectory(inodes[n])) => r.null
        /\ (n # Absent /\ ~isDirectory(inodes[n]))
              => (r.null = inodes[n].i_data.null /\ r.str = inodes[n].i_data.str)

\* C15: readdir(path) is absent if the path does not resolve or resolves
\* to a non-directory, and otherwise the directory's entry sequence;
\* read(path) is absent if the path does not resolve or resolves to a
\* directory, and otherwise the inode's payload; stat(path) is exactly
\* what namei(path) is.
C15_QueryContracts ==
    /\ \A P \in QueryPaths \cup Unresolvable :
          /\ ReaddirContract(P, readdir(inodes, P))
          /\ ReadContract(P, read(inodes, P))
          /\ stat(inodes, P) = namei(inodes, P)
    /\ ret.op = "readdir"
          => ReaddirContract(ret.path, [threw |-> ret.threw, null |-> ret.entries.null,
                                        list |-> ret.entries.list])
    /\ ret.op = "read"
          => ReadContract(ret.path, [threw |-> ret.threw, null |-> ret.data.null,
                                     str |-> ret.data.str])
    /\ ret.op = "stat" => ret.inode = namei(inodes, ret.path)

C15_Witness ==
    /\ ret.op = "readdir" /\ ret.path = Str("/dev/null")
    /\ ret.entries.null /\ ~ret.threw
    /\ isCharDevice(inodes[namei(inodes, ret.path)])
    /\ read(inodes, Str("/dev/null")) = Returned(Str("ab"))
    /\ read(inodes, Str("/usr")).null
    /\ ~readdir(inodes, Str("/usr")).null

TwoQueries == TwoPaths \cup {Str("/etc/f/..")}

SameAnswers(a, b) ==
    \A P \in TwoQueries :
        \E na \in {namei(a.inodes, P)}, nb \in {namei(b.inodes, P)} :
            /\ na = nb
            /\ stat(a.inodes, P) = nb
            /\ na \in DOMAIN a.inodes => a.inodes[na] = b.inodes[nb]
            /\ read(a.inodes, P) = read(b.inodes, P)
            /\ readdir(a.inodes, P) = readdir(b.inodes, P)

\* a call on instance k leaves the other instance as it was
Untouched(k) ==
    \A j \in Instances \ {k} :
        \E after \in {CellNext(constructor(j))}, before \in {Cell(constructor(j))} :
            after = before /\ SameAnswers(after, before)

Char(s, i) == SubSeq(s, i, i)

\* C17: the permission string has 10 characters: a type character ("d" for
\* a directory, "c" for a character device, "-" otherwise) followed by the
\* same r/w/x triple three times, r, w and x being set exactly when the
\* mode bits 0o400, 0o200 and 0o100 are set.
C17_PermissionString ==
    ret.op = "getPermissionString"
       => LET s == ret.content
              t == TypeBits(ret.mode)
          IN  /\ Len(s) = 10
              /\ Char(s, 1) = "d" <=> t = IFDIR
              /\ Char(s, 1) = "c" <=> t = IFCHR
              /\ Char(s, 1) = "-" <=> t \notin {IFDIR, IFCHR}
              /\ Char(s, 2) = "r" <=> (ret.mode \div 256) % 2 = 1
              /\ Char(s, 3) = "w" <=> (ret.mode \div 128) % 2 = 1
              /\ Char(s, 4) = "x" <=> (ret.mode \div 64) % 2 = 1
              /\ \A i \in 2..4 : Char(s, i) \in {"r", "w", "x", "-"}
              /\ Char(s, 2) # "r" => Char(s, 2) = "-"
              /\ Char(s, 3) # "w" => Char(s, 3) = "-"
              /\ Char(s, 4) # "x" => Char(s, 4) = "-"
              /\ SubSeq(s, 5, 7) = SubSeq(s, 2, 4)
              /\ SubSeq(s, 8, 10) = SubSeq(s, 2, 4)

C17_Witness ==
    /\ ret.op = "getPermissionString"
    /\ ret.mode = IALLOC + IFCHR + IREAD + IWRITE + 36
    /\ ret.content = "crw-rw-rw-"

\* C18: a successful write(P, D) changes only the payload, size and modify
\* time of the one inode P resolves to: its identifier, mode, link count,
\* owner, group and access time, every other inode, every directory's
\* entry list, the set of identifiers and the next identifier stay.
C18_WriteFrame ==
    [][(ret'.op = "write" /\ ret'.ok)
          => \E n \in {namei(inodes, ret'.path)} :
                /\ n \in DOMAIN inodes
                /\ ret'.inode = n
                /\ DOMAIN inodes' = DOMAIN inodes
                /\ nextInum' = nextInum
                /\ \A i \in DOMAIN inodes \ {n} : inodes'[i] = inodes[i]
                /\ \A i \in DOMAIN inodes : inodes'[i].i_entries = inodes[i].i_entries
                /\ inodes'[n] = [inodes[n] EXCEPT !.i_data = inodes'[n].i_data,
                                                  !.i_size = inodes'[n].i_size,
                                                  !.i_mtime = inodes'[n].i_mtime]
                /\ inodes'[n].i_data = Str(ret'.content)
                /\ inodes'[n].i_size = Len(ret'.content)
                /\ inodes'[n].i_mtime = clock']_vars

C18_Witness ==
    /\ ret.op = "write" /\ ret.ok /\ ret.path = Str("/usr/games/ttt.k")
    /\ ret.content = "ab" /\ clock = MaxClock
    /\ inodes[ret.inode].i_mtime = MaxClock
    /\ inodes[ret.inode].i_atime = 0
    /\ inodes[ret.inode].i_size = 2
    /\ inodes[ret.inode].i_mode = IALLOC + Perm644

QueryOps == {"namei", "stat", "read", "readdir"}

\* C19: namei, stat, read and readdir leave the table as it is, for every
\* path, resolving or not: every inode field (the access time too), every
\* entry list, the set of identifiers and the next identifier; and the
\* same call made twice in a row returns the same result.
C19_QueriesArePure ==
    [][ret'.op \in QueryOps
          => /\ inodes' = inodes
             /\ nextInum' = nextInum
             /\ \A i \in DOMAIN inodes : inodes'[i].i_atime = inodes[i].i_atime
             /\ (ret.op = ret'.op /\ ret.path = ret'.path) => ret' = ret]_vars

C19_Witness ==
    /\ ret.op = "read" /\ ret.path = Str("/usr/games/ttt.k")
    /\ ret.data = Str("ab")
    /\ clock = MaxClock
    /\ inodes[namei(inodes, ret.path)].i_atime = 0
    /\ inodes[namei(inodes, ret.path)].i_mtime = MaxClock

\* the inode of the earliest entry of list l that has the name of entry i
EarliestOfName(l, i) ==
    l[CHOOSE j \in 1..i : l[j].name = l[i].name /\ FirstOfName(l, j)].inum

FirstMatchWins ==
    \A P \in DirPaths :
        DirectoryAt(inodes, P)
           => \E l \in {inodes[namei(inodes, P)].i_entries.list} :
                 \A i \in 1..Len(l) :
                     /\ _lookup(inodes, namei(inodes, P), l[i].name) = EarliestOfName(l, i)
                     /\ (l[i].name # "" /\ ~HasSlash(l[i].name))
                           => namei(inodes, Str(P.str \o "/" \o l[i].name))
                                 = EarliestOfName(l, i)

\* a write through a name touches the earliest entry's inode and no other
WriteHitsEarliest ==
    (ret'.op = "write" /\ ret'.ok)
       => \E n \in {namei(inodes, ret'.path)} :
             /\ ret'.inode = n
             /\ \A j \in DOMAIN inodes \ {n} : inodes'[j] = inodes[j]
             /\ read(inodes', ret'.path) = Returned(Str(ret'.content))
             /\ inodes'[n].i_data = Str(ret'.content)
             /\ \A P \in DirPaths :
                   (DirectoryAt(inodes, P) /\ ret'.path = Str(P.str \o "/f"))
                      => \E l \in {inodes[namei(inodes, P)].i_entries.list} :
                            \A i \in 1..Len(l) :
                               l[i].name = "f" => n = EarliestOfName(l, i)

\* C20: inserts make no uniqueness check and lookup takes the first match:
\* when a directory holds several entries of one name, namei through that
\* name resolves to the inode of the earliest such entry, and write and
\* read on that path touch that inode only.
C20_FirstMatch == []FirstMatchWins /\ [][WriteHitsEarliest]_vars

C20_Witness ==
    /\ ret.op = "write" /\ ret.ok /\ ret.path = Str("/etc/f")
    /\ ret.inode = FirstFree
    /\ \E l \in {inodes[namei(inodes, Str("/etc"))].i_entries.list} :
          /\ Len(l) = 6
          /\ l[5] = [inum |-> FirstFree, name |-> "f"]
          /\ l[6] = [inum |-> FirstFree + 1, name |-> "f"]
    /\ inodes[FirstFree].i_data = Str("xyz")
    /\ inodes[FirstFree + 1].i_data = Str("ab")
    /\ isRegular(inodes[FirstFree]) /\ isRegular(inodes[FirstFree + 1])
    /\ read(inodes, Str("/etc/f")) = Returned(Str("xyz"))

First14(name) == IF Len(name) > 14 THEN SubSeq(name, 1, 14) ELSE name

NamesAreShort ==
    \A d \in Dirs(inodes) :
        \A i \in 1..Len(inodes[d].i_entries.list) :
            Len(inodes[d].i_entries.list[i].name) <= 14

\* a helper call that returns has appended (new inode, first 14 characters
\* of the requested name) to the parent
AppendsTruncated ==
    (ret'.op \in MkOps /\ ~ret'.threw)
       => \E l \in {inodes'[ret'.parent].i_entries.list} :
             /\ Len(l) = Len(inodes[ret'.parent].i_entries.list) + 1
             /\ l[Len(l)] = [inum |-> ret'.inode, name |-> First14(ret'.name)]

\* C21 as stated: entry names are cut to 14 characters and creation is
\* never rejected for length; every entry name has at most 14 characters
\* and is the first 14 characters of the requested name, and an inode
\* created with a longer name is found by namei at the parent path plus
\* the 14-character name.
C21_TruncatedNames ==
    /\ []NamesAreShort
    /\ [][/\ AppendsTruncated
          /\ \A P \in ParentPaths :
                (/\ ret'.op \in MkOps /\ ~ret'.threw
                 /\ namei(inodes, P) = ret'.parent
                 /\ Len(ret'.name) > 14)
                   => namei(inodes', Str(P.str \o "/" \o First14(ret'.name)))
                         = ret'.inode]_vars

\* C21 amended: the same, the inode being found at the 14-character name
\* provided that name holds no "/" and names no earlier entry of the parent.
C21_TruncatedNamesFirst ==
    /\ []NamesAreShort
    /\ [][/\ AppendsTruncated
          /\ \A P \in ParentPaths :
                (/\ ret'.op \in MkOps /\ ~ret'.threw
                 /\ namei(inodes, P) = ret'.parent
                 /\ Len(ret'.name) > 14
                 /\ ~HasSlash(First14(ret'.name))
                 /\ ~NameTaken(inodes, ret'.parent, First14(ret'.name)))
                   => namei(inodes', Str(P.str \o "/" \o First14(ret'.name)))
                         = ret'.inode]_vars

C21_Witness ==
    /\ ret.op = "mkdir" /\ ~ret.threw /\ ret.name = "a_name_of_21_letters_"
    /\ ret.inode = FirstFree
    /\ namei(inodes, Str("/etc/a_name_of_21_l")) = FirstFree
    /\ namei(inodes, Str("/etc/a_name_of_21_letters_")) = Absent
    /\ isDirectory(inodes[FirstFree])

\* after the write recorded in ret', every path to the written inode reads
\* the new payload and every path to another inode reads what it did
SeenThroughEveryPath ==
    \E n \in {namei(inodes, ret'.path)} :
        \A Q \in QueryPaths :
            \E m \in {namei(inodes, Q)} :
                /\ namei(inodes', Q) = m
                /\ m = n => /\ read(inodes', Q) = Returned(Str(ret'.content))
                            /\ inodes'[stat(inodes', Q)].i_size = Len(ret'.content)
                /\ m # n => read(inodes', Q) = read(inodes, Q)

\* C22 as stated: writes are keyed by inode, not by path spelling: if P and
\* Q resolve to the same inode, then after write(P, D) read(Q) returns D
\* and stat(Q) has size Len(D), and read of a path to any other inode is
\* unchanged.
C22_WriteKeyedByInode ==
    [][(ret'.op = "write" /\ Resolves(inodes, ret'.path))
          => SeenThroughEveryPath]_vars

\* C22 amended: the same, for P and Q that resolve to the same inode which
\* is not a directory.
C22_WriteKeyedByFileInode ==
    [][(ret'.op = "write" /\ Resolves(inodes, ret'.path)
          /\ ~DirectoryAt(inodes, ret'.path))
          => (ret'.ok /\ SeenThroughEveryPath)]_vars

C22_Witness ==
    /\ ret.op = "write" /\ ret.ok /\ ret.content = "ab"
    /\ ret.path = Str("/usr/games/../games//ttt.k")
    /\ read(inodes, Str("/usr/games/ttt.k")) = Returned(Str("ab"))
    /\ inodes[stat(inodes, Str("/usr/games/ttt.k"))].i_size = 2
    /\ read(inodes, Str("/etc/passwd")) = Returned(Str(Passwd))

(***************************************************************************)
(* Tic-tac-toe.                                                            *)
(***************************************************************************)
\* the step placed a human's and then a computer's mark: computeMove was
\* called on the board that lacks the computer's mark, with the knowledge
\* the step started from
ComputerMoved == Len(ttt'.moveHistory) = Len(ttt.moveHistory) + 2

Last(seq) == seq[Len(seq)]

BoardBefore(t) == [t.board EXCEPT ![Last(t.moveHistory) + 1] = EMPTY]

WeightAt(knowledge, board, cell) ==
    lookupWeight(knowledge, [board EXCEPT ![cell + 1] = COMPUTER])

HighestWeight(knowledge, board, cell) ==
    /\ cell \in 0..8
    /\ board[cell + 1] = EMPTY
    /\ \A e \in 0..8 :
          board[e + 1] = EMPTY =>
              WeightAt(knowledge, board, e) <= WeightAt(knowledge, board, cell)

\* C23: computeMove, called on a board that has an empty cell, returns an
\* empty cell whose resulting position has the highest stored weight among
\* the empty cells, a position absent from the knowledge counting as 0.
C23_ComputeMoveHighestWeight ==
    [][ComputerMoved =>
           HighestWeight(ttt.knowledge, BoardBefore(ttt'), Last(ttt'.moveHistory))]_vars

MaxCode == 3 * 3 * 3 * 3 * 3 * 3 * 3 * 3 * 3 - 1

\* C24: in every reachable state each weight of the knowledge map lies in
\* -128..127 and each board code in 0..3^9-1.
C24_KnowledgeInRange ==
    \A k \in 1..Len(ttt.knowledge) :
        /\ ttt.knowledge[k].weight \in -128..127
        /\ ttt.knowledge[k].code \in 0..MaxCode

\* the step left the inner loop: updateKnowledge was called once, on the
\* knowledge the step started from, with the moveHistory the step ends with
GameEnded == ttt.pc = "turn" /\ ttt'.pc = "over"

\* the board after the first n marks of a history, and its base-3 code
PositionAfter(history, n) ==
    [cell \in 1..9 |->
        IF \E i \in 1..n : history[i] + 1 = cell /\ i % 2 = 1 THEN HUMAN
        ELSE IF \E i \in 1..n : history[i] + 1 = cell /\ i % 2 = 0 THEN COMPUTER
        ELSE EMPTY]

CodeOf(b) ==
    b[1] * 6561 + b[2] * 2187 + b[3] * 729 + b[4] * 243 + b[5] * 81
        + b[6] * 27 + b[7] * 9 + b[8] * 3 + b[9]

ComputerCodes(history) ==
    {CodeOf(PositionAfter(history, n)) : n \in {i \in 1..Len(history) : i % 2 = 0}}

Codes(knowledge) == {knowledge[k].code : k \in 1..Len(knowledge)}

Clamped(w) == IF w > 127 THEN 127 ELSE IF w < -128 THEN -128 ELSE w

Adjustment(outcome) ==
    CASE outcome = COMPUTER -> 3
      [] outcome = EMPTY -> 1
      [] outcome = HUMAN -> -2

Adjusted(before, after, history, outcome) ==
    /\ Codes(after) = Codes(before) \cup ComputerCodes(history)
    /\ \A code \in Codes(after) :
          KnowledgeGet(after, code) =
              IF code \in ComputerCodes(history)
              THEN Clamped(KnowledgeGet(before, code) + Adjustment(outcome))
              ELSE KnowledgeGet(before, code)

\* C25: updateKnowledge(outcome) adds +3 for a computer win, +1 for a draw
\* and -2 for a loss, clamped to -128..127, to the weight of exactly the
\* positions that stood after each computer move of the finished game,
\* once each, and leaves every other entry of the knowledge unchanged.
C25_UpdateKnowledge ==
    [][GameEnded =>
           Adjusted(ttt.knowledge, ttt'.knowledge, ttt'.moveHistory,
                    Last(ttt'.calls))]_vars

\* a lost game whose last computer position fell from -127 to the clamp
C25_Witness ==
    /\ ttt.pc = "over"
    /\ ttt.calls = <<HUMAN>>
    /\ Len(ttt.moveHistory) = 5
    /\ KnowledgeGet(ttt.knowledge, CodeOf(PositionAfter(ttt.moveHistory, 4))) = -128
    /\ KnowledgeGet(ttt.knowledge, CodeOf(PositionAfter(ttt.moveHistory, 2))) = 124

Lines ==
    {{1, 2, 3}, {4, 5, 6}, {7, 8, 9}, {1, 4, 7}, {2, 5, 8}, {3, 6, 9},
     {1, 5, 9}, {3, 5, 7}}

HasLine(b, mark) == \E line \in Lines : \A cell \in line : b[cell] = mark

Full(b) == \A cell \in 1..9 : b[cell] # EMPTY

\* moveHistory holds cells, none twice, and the board is what its marks
\* give when placed in turn by the human and the computer
HistoryAgrees ==
    /\ Len(ttt.moveHistory) <= 9
    /\ \A i \in 1..Len(ttt.moveHistory) : ttt.moveHistory[i] \in 0..8
    /\ \A i, j \in 1..Len(ttt.moveHistory) :
          ttt.moveHistory[i] = ttt.moveHistory[j] => i = j
    /\ ttt.board = PositionAfter(ttt.moveHistory, Len(ttt.moveHistory))

\* while the game goes on nothing was reported and the board is open; when
\* it is over exactly one outcome was reported, the one the board shows
OutcomeMatches ==
    /\ ttt.pc \in {"turn", "returned"} =>
          /\ ttt.calls = <<>>
          /\ ~HasLine(ttt.board, HUMAN)
          /\ ~HasLine(ttt.board, COMPUTER)
          /\ ~Full(ttt.board)
    /\ ttt.pc = "over" =>
          /\ Len(ttt.calls) = 1
          /\ ttt.calls[1] = HUMAN <=> HasLine(ttt.board, HUMAN)
          /\ ttt.calls[1] = COMPUTER <=> HasLine(ttt.board, COMPUTER)
          /\ ttt.calls[1] = EMPTY <=>
                (Full(ttt.board) /\ ~HasLine(ttt.board, HUMAN)
                                 /\ ~HasLine(ttt.board, COMPUTER))

\* the number an input asks for is not one of 1..9 or its cell is taken
IllegalInput(input) ==
    \/ input.null
    \/ \E asked \in {parseInt(trim(input.str))} :
          \/ asked.nan
          \/ asked.val \notin 1..9
          \/ ttt.board[asked.val] # EMPTY

\* the pass of the inner loop that reads an illegal input, or none, leaves
\* the board and moveHistory as they are
IllegalIgnored ==
    ttt.pc = "turn" =>
        \A input \in Inputs :
            IllegalInput(input) =>
                /\ TurnOn(ttt, input).board = ttt.board
                /\ TurnOn(ttt, input).moveHistory = ttt.moveHistory

GameSteps ==
    /\ (ttt.pc = "turn" /\ ttt'.moveHistory # ttt.moveHistory) =>
          /\ Len(ttt'.moveHistory) \in
                {Len(ttt.moveHistory) + 1, Len(ttt.moveHistory) + 2}
          /\ SubSeq(ttt'.moveHistory, 1, Len(ttt.moveHistory)) = ttt.moveHistory
          /\ ttt.board[ttt'.moveHistory[Len(ttt.moveHistory) + 1] + 1] = EMPTY
    /\ (ttt.pc \in {"new", "over"} /\ ttt'.pc = "turn") =>
          /\ ttt'.board = [cell \in 1..9 |-> EMPTY]
          /\ ttt'.moveHistory = <<>>

\* C26: moveHistory lists the marks of the game in strict alternation human,
\* computer, with no cell repeated, and agrees with the board; an illegal
\* input changes neither; a game ends after at most 9 marks with exactly
\* one updateKnowledge call whose outcome is what the final board shows;
\* the board and moveHistory are reset before the next game.
C26_GameLoop ==
    [](HistoryAgrees /\ OutcomeMatches /\ IllegalIgnored) /\ [][GameSteps]_vars

\* the second game of a run ended in a draw on a full board
C26_Witness ==
    /\ ttt.pc = "over"
    /\ ttt.games = 1
    /\ Len(ttt.moveHistory) = 9
    /\ ttt.calls = <<EMPTY>>

(***************************************************************************)
(* Hunt the Wumpus.                                                        *)
(***************************************************************************)
Rooms == 1..20

Tunnels(room) == {CAVE_MAP[room][i] : i \in 1..3}

\* the game is in the 'continue' state: run() waits for a command
Continuing == wump.pc = "play"

PlayerIsSafe ==
    Continuing =>
        /\ wump.player \in Rooms
        /\ wump.player \notin wump.pits
        /\ wump.player \notin wump.bats
        /\ wump.player # wump.wumpus

\* a move to a room in 1..20 with no tunnel from the player's room
WallsHold ==
    Continuing =>
        \A room \in Rooms \ Tunnels(wump.player) :
            \A next \in move(wump, room) :
                /\ next.result = "continue"
                /\ next.player = wump.player
                /\ next.wumpus = wump.wumpus
                /\ next.pits = wump.pits
                /\ next.bats = wump.bats

\* the step ran setup
SetUpRan == wump.pc \in {"new", "again"} /\ wump'.pc = "play"

SixRooms ==
    SetUpRan =>
        /\ Cardinality(wump'.pits) = 2
        /\ Cardinality(wump'.bats) = 2
        /\ ({wump'.player, wump'.wumpus} \cup wump'.pits \cup wump'.bats) \subseteq Rooms
        /\ Cardinality({wump'.player, wump'.wumpus} \cup wump'.pits \cup wump'.bats) = 6

\* C27: whenever the game is in the 'continue' state the player's room is
\* in 1..20 and is no pit room, no bat room and not the wumpus's room; setup
\* places the player, the wumpus, two pits and two bat colonies in six
\* pairwise distinct rooms; a move to a non-adjacent room leaves the
\* player's position and all hazards unchanged.
C27_PlayerSafeWhileContinuing ==
    [](PlayerIsSafe /\ WallsHold) /\ [][SixRooms]_vars

\* the game continues after two missed shots and a move out of the room of
\* the setup, the wumpus having wandered into a bat room
C27_Witness ==
    /\ Continuing
    /\ wump.shots = 2
    /\ wump.player = 6
    /\ wump.wumpus \in wump.bats

\* the step called shoot
Shot == wump'.shots = wump.shots + 1

ArrowsInQuiver ==
    wump.pc \in {"play", "again"} =>
        /\ wump.arrows \in 0..5
        /\ wump.arrows = 5 - wump.shots
        /\ Continuing => wump.shots < 5 /\ wump.arrows > 0

ArrowSteps ==
    /\ Shot =>
          /\ wump.arrows > 0
          /\ wump'.arrows = wump.arrows - 1
          /\ wump'.shots = 5 => wump'.result \in {"win", "lose"}
    /\ SetUpRan => wump'.arrows = 5 /\ wump'.shots = 0
    /\ (~Shot /\ ~SetUpRan) => wump'.arrows = wump.arrows

\* C28: the player has 5 arrows per game: every shoot takes exactly one,
\* arrows stays within 0..5 while a game is in progress, no shot is taken
\* with 0 arrows, the fifth shot of a game returns 'win' or 'lose' so that no
\* game continues past it, and arrows is 5 again at the start of each game.
C28_FiveArrows ==
    []ArrowsInQuiver /\ [][ArrowSteps]_vars

\* a game lost by its fifth shot, the quiver empty and the wumpus elsewhere
C28_Witness ==
    /\ wump.pc = "again"
    /\ wump.shots = 5
    /\ wump.arrows = 0
    /\ wump.result = "lose"
    /\ wump.wumpus # wump.player

====
